---- MODULE Spec2Model ----
(***************************************************************************)
(* design-token-bridge-mcp: the canonical token schema and its validator,  *)
(* the four extractors, and the nine tool handlers of the MCP server.      *)
(*                                                                         *)
(* Representation.                                                         *)
(*  - A JavaScript string whose characters matter (a color, a unit) is a   *)
(*    sequence of one-character strings: "#F0A" is <<"#","F","0","A">>.    *)
(*  - A JavaScript number is an integer counting hundredths: 16 is 1600,   *)
(*    0.5 is 50, 450.5 is 45050.                                           *)
(*  - A JavaScript object with insertion-ordered keys is a sequence of     *)
(*    entries, each a record with a name field; names are unique.          *)
(*  - An optional value is Absent (undefined) or Some(v).                  *)
(***************************************************************************)
EXTENDS Integers, Sequences, FiniteSets, TLC

Absent == <<>>
Some(v) == <<v>>
Get(o) == o[1]

\* n as a JavaScript number (hundredths)
H(n) == n * 100

\* ------------------------------------------------------------------------
\* State
\*   fn, arg, ret : the function or tool applied, its argument, and its
\*                  result (Absent until it has returned)
\*   gen          : the call the last tool handler made to a generator or to
\*                  validateContrast, Absent when it made none
\*   history      : the tool calls the server has completed, oldest first
\* ------------------------------------------------------------------------
VARIABLES fn, arg, ret, gen, history

vars == <<fn, arg, ret, gen, history>>

\* the characters of a name as one string
Str(cs) ==
  LET f[i \in 0..Len(cs)] == IF i = 0 THEN "" ELSE f[i - 1] \o cs[i]
  IN  f[Len(cs)]

\* ------------------------------------------------------------------------
\* Characters
\* ------------------------------------------------------------------------
Digits == {"0", "1", "2", "3", "4", "5", "6", "7", "8", "9"}
LowerHex == {"a", "b", "c", "d", "e", "f"}
UpperHex == {"A", "B", "C", "D", "E", "F"}
HexDigits == Digits \cup LowerHex \cup UpperHex

\* String.prototype.toUpperCase, one character
UpperChar(c) ==
  CASE c = "a" -> "A" [] c = "b" -> "B" [] c = "c" -> "C" [] c = "d" -> "D"
    [] c = "e" -> "E" [] c = "f" -> "F" [] c = "r" -> "R" [] c = "g" -> "G"
    [] c = "n" -> "N" [] c = "x" -> "X"
    [] OTHER -> c

\* String.prototype.toUpperCase
ToUpperCase(s) == [i \in 1..Len(s) |-> UpperChar(s[i])]

\* /^#[0-9a-fA-F]{lo,hi}$/.test(s)
HexPattern(s, lo, hi) ==
  /\ Len(s) >= 1
  /\ s[1] = "#"
  /\ Len(s) - 1 >= lo
  /\ Len(s) - 1 <= hi
  /\ \A i \in 2..Len(s) : s[i] \in HexDigits

\* ------------------------------------------------------------------------
\* The canonical schema (zod): each schema maps a path and a value to the
\* list of issues zod collects for it, in zod's order. A failed check does
\* not stop the later checks of the same value, nor the other fields.
\* ------------------------------------------------------------------------
Issue(path, message) == [path |-> path, message |-> message]

\* a check that adds its issue when it fails
Check(ok, path, message) == IF ok THEN <<>> ELSE <<Issue(path, message)>>

hexColor(path, v) ==
  Check(HexPattern(v, 3, 3) \/ HexPattern(v, 6, 6) \/ HexPattern(v, 8, 8),
        path, "Must be a valid hex color (#RGB, #RRGGBB, or #RRGGBBAA)")

Categories ==
  {"primary", "secondary", "tertiary", "neutral", "error", "surface",
   "background", "custom"}

colorToken(path, t) ==
  hexColor(path \o <<"value">>, t.value)
  \o (IF t.category = Absent THEN <<>>
      ELSE Check(Get(t.category) \in Categories, path \o <<"category">>,
                 "Invalid enum value"))

fontWeightMin == 100
fontWeightMax == 900
fontWeightStep == 100

\* the range of CSS Fonts Level 4: any integer from 1 to 1000
fontWeightSchemaLevel4(path, v) ==
  Check(v % H(1) = 0, path, "Expected integer, received float")
  \o Check(v >= H(1), path, "fontWeight minimum is 1")
  \o Check(v <= H(1000), path, "fontWeight maximum is 1000")

\* the number NaN: a value no arithmetic of the model yields
NaN == 0 - 2147483647

fontWeightSchema(path, v) ==
  IF v = NaN THEN <<Issue(path, "Expected number, received nan")>>
  ELSE
    Check(v % H(1) = 0, path, "Expected integer, received float")
    \o Check(v >= H(fontWeightMin), path, "fontWeight minimum is 100")
    \o Check(v <= H(fontWeightMax), path, "fontWeight maximum is 900")
    \o Check(v % H(fontWeightStep) = 0, path, "fontWeight must be a multiple of 100")

typographyToken(path, t) ==
  (IF t.fontSize = Absent THEN <<Issue(path \o <<"fontSize">>, "Required")>>
   ELSE Check(Get(t.fontSize) > 0, path \o <<"fontSize">>,
              "fontSize must be positive"))
  \o (IF t.lineHeight = Absent THEN <<>>
      ELSE Check(Get(t.lineHeight) > 0, path \o <<"lineHeight">>,
                 "lineHeight must be positive"))
  \o (IF t.fontWeight = Absent THEN <<>>
      ELSE fontWeightSchema(path \o <<"fontWeight">>, Get(t.fontWeight)))

elevationToken(path, t) ==
  hexColor(path \o <<"shadowColor">>, t.shadowColor)
  \o Check(t.shadowRadius >= 0, path \o <<"shadowRadius">>,
           "shadowRadius cannot be negative")
  \o Check(t.shadowOpacity >= 0, path \o <<"shadowOpacity">>,
           "shadowOpacity minimum is 0")
  \o Check(t.shadowOpacity <= H(1), path \o <<"shadowOpacity">>,
           "shadowOpacity maximum is 1")

motionToken(path, t) ==
  Check(t.duration > 0, path \o <<"duration">>, "duration must be positive")
  \o Check(Len(t.easing) >= 1, path \o <<"easing">>, "easing cannot be empty")

spacingValue(path, t) ==
  Check(t.value >= 0, path, "spacing cannot be negative")

radiiValue(path, t) ==
  Check(t.value >= 0, path, "radii cannot be negative")

\* the element schema of each z.record
ElementIssues(field, path, e) ==
  CASE field = "colors" -> colorToken(path, e)
    [] field = "typography" -> typographyToken(path, e)
    [] field = "spacing" -> spacingValue(path, e)
    [] field = "radii" -> radiiValue(path, e)
    [] field = "elevation" -> elevationToken(path, e)
    [] field = "motion" -> motionToken(path, e)

\* z.record(z.string(), elem).optional(): the issues of every entry, in order
RecordIssues(coll, field) ==
  IF coll = Absent THEN <<>>
  ELSE LET entries == Get(coll)
           f[i \in 0..Len(entries)] ==
             IF i = 0 THEN <<>>
             ELSE f[i - 1]
                  \o ElementIssues(field, <<field, Str(entries[i].name)>>, entries[i])
       IN  f[Len(entries)]

\* the .refine() of the root object
HasCategory(tokens) ==
  \/ tokens.colors # Absent
  \/ tokens.typography # Absent
  \/ tokens.spacing # Absent
  \/ tokens.radii # Absent
  \/ tokens.elevation # Absent
  \/ tokens.motion # Absent

\* designTokensSchema.safeParse(input).error.issues (empty on success)
designTokensSchema(tokens) ==
  RecordIssues(tokens.colors, "colors")
  \o RecordIssues(tokens.typography, "typography")
  \o RecordIssues(tokens.spacing, "spacing")
  \o RecordIssues(tokens.radii, "radii")
  \o RecordIssues(tokens.elevation, "elevation")
  \o RecordIssues(tokens.motion, "motion")
  \o Check(HasCategory(tokens), <<>>,
           "Token object must contain at least one token category")

\* issue.path.join(".")
JoinPath(path) ==
  LET f[i \in 1..Len(path)] ==
        IF i = 1 THEN path[1] ELSE f[i - 1] \o "." \o path[i]
  IN  f[Len(path)]

\* `${path}: ${issue.message}`
FormatIssue(issue) ==
  (IF Len(issue.path) > 0 THEN JoinPath(issue.path) ELSE "(root)")
  \o ": " \o issue.message

\* reports issues[0] alone
validateTokensFirstIssue(input) ==
  LET issues == designTokensSchema(input)
  IN  IF issues = <<>>
      THEN [valid |-> TRUE, tokens |-> Some(input), errors |-> Absent]
      ELSE [valid |-> FALSE, tokens |-> Absent,
            errors |-> Some(<<FormatIssue(issues[1])>>)]

validateTokens(input) ==
  LET issues == designTokensSchema(input)
  IN  IF issues = <<>>
      THEN [valid |-> TRUE, tokens |-> Some(input), errors |-> Absent]
      ELSE [valid |-> FALSE, tokens |-> Absent,
            errors |-> Some([i \in 1..Len(issues) |-> FormatIssue(issues[i])])]

\* JSON text: the text of a value, or a text JSON.parse throws on (the empty
\* string is one)
JsonText(v) == [wellFormed |-> TRUE, empty |-> FALSE, value |-> Some(v)]
MalformedJson == [wellFormed |-> FALSE, empty |-> FALSE, value |-> Absent]
EmptyText == [wellFormed |-> FALSE, empty |-> TRUE, value |-> Absent]

parseTokensFromString(jsonString) ==
  IF ~jsonString.wellFormed
  THEN [valid |-> FALSE, tokens |-> Absent,
        errors |-> Some(<<IF jsonString.empty
                          THEN "Invalid JSON: Unexpected end of JSON input"
                          ELSE "Invalid JSON: Unexpected token">>)]
  ELSE validateTokens(Get(jsonString.value))

\* the expansion of "#RGB" left in the case it was written in
normalizeHexColorKeepingCase(hex) ==
  IF HexPattern(hex, 3, 3)
  THEN <<"#", hex[2], hex[2], hex[3], hex[3], hex[4], hex[4]>>
  ELSE ToUpperCase(hex)

\* "#RGB" -> "#RRGGBB"; anything else only upper-cased
normalizeHexColor(hex) ==
  IF HexPattern(hex, 3, 3)
  THEN ToUpperCase(<<"#", hex[2], hex[2], hex[3], hex[3], hex[4], hex[4]>>)
  ELSE ToUpperCase(hex)

Max(a, b) == IF a >= b THEN a ELSE b
Min(a, b) == IF a <= b THEN a ELSE b

\* Objects live in a heap: a function from references to the objects'
\* contents. The reference [obj, field, index] names the token set (field "",
\* index 0), one of its collections (index 0) or one token of a collection;
\* obj is 0 for the objects the caller built and k for the objects the k-th
\* call allocated. A token set holds, per collection, Absent or a reference
\* to the collection; a collection holds the references of its tokens in key
\* order; a token holds its fields by value.
Ref(obj, field, index) == [obj |-> obj, field |-> field, index |-> index]
Root(obj) == Ref(obj, "", 0)

\* result and tokens name one object
SameTokens(heap, tokens, k) == [heap |-> heap, result |-> tokens]

\* const result = { ...tokens }
SpreadTokens(heap, tokens, k) ==
  [heap |-> (Root(k) :> heap[tokens]) @@ heap, result |-> Root(k)]

\* { ...token, value: ... } and { ...token, shadowColor: ..., shadowOpacity: ... }
SanitizedToken(c, token) ==
  IF c = "colors"
  THEN [token EXCEPT !.value = normalizeHexColor(token.value)]
  ELSE [token EXCEPT
          !.shadowColor = normalizeHexColor(token.shadowColor),
          !.shadowOpacity = Max(0, Min(H(1), token.shadowOpacity))]

\* if (result[c]) { const sanitized = {}; for ... sanitized[name] = ...;
\* result[c] = sanitized }
SanitizeCollection(heap, result, c, k) ==
  IF heap[result][c] = Absent THEN heap
  ELSE LET entries == heap[Get(heap[result][c])]
           sanitized == Ref(k, c, 0)
           created ==
             [a \in {Ref(k, c, i) : i \in 1..Len(entries)} |->
                SanitizedToken(c, heap[entries[a.index]])]
           filled ==
             (sanitized :> [i \in 1..Len(entries) |-> Ref(k, c, i)])
               @@ created @@ heap
       IN  (result :> [filled[result] EXCEPT ![c] = Some(sanitized)]) @@ filled

\* the k-th call of sanitizeTokens: the heap it leaves and the reference it
\* returns
sanitizeTokens(heap, tokens, k) ==
  LET copy == SpreadTokens(heap, tokens, k)
      withColors == SanitizeCollection(copy.heap, copy.result, "colors", k)
  IN  [heap |-> SanitizeCollection(withColors, copy.result, "elevation", k),
       result |-> copy.result]

\* ------------------------------------------------------------------------
\* Token values
\* ------------------------------------------------------------------------
Color(name, value) == [name |-> name, value |-> value, category |-> Absent]

Typo(name, fontSize) ==
  [name |-> name, fontSize |-> Some(fontSize), lineHeight |-> Absent,
   fontWeight |-> Absent, letterSpacing |-> Absent, fontFamily |-> Absent]

Scalar(name, value) == [name |-> name, value |-> value]

Elevation(name, color, x, y, radius, opacity) ==
  [name |-> name, shadowColor |-> color, shadowOffset |-> [x |-> x, y |-> y],
   shadowRadius |-> radius, shadowOpacity |-> opacity]

Motion(name, duration, easing) ==
  [name |-> name, duration |-> duration, easing |-> easing]

NoTokens ==
  [colors |-> Absent, typography |-> Absent, spacing |-> Absent,
   radii |-> Absent, elevation |-> Absent, motion |-> Absent]

CollectionNames ==
  {"colors", "typography", "spacing", "radii", "elevation", "motion"}

cBlackDefault == <<"#", "0", "0", "0", "0", "0", "0">>

\* ------------------------------------------------------------------------
\* Strings and JSON values as the extractors read them
\*
\* A name (an object key, a custom-property name) is a sequence of
\* characters. A string value is kept as its lexical form:
\*   hex    a string starting with "#": chars holds all its characters
\*   dim    [-]<number>[ws][unit]: sign, magnitude (hundredths), ws, unit
\*   rgb    rgb(r, g, b) or rgba(r, g, b[, a]): fname, r, g, b, a
\*   hsl    hsl(h, s%, l%)
\*   shadow <x> <y> <blur> <color>: x, y, blur and the color string
\*   alias  "{ref}": chars holds ref
\*   text   any other string: text
\* ------------------------------------------------------------------------
StrBase ==
  [kind |-> "text", text |-> "", chars |-> <<>>, sign |-> 1, num |-> 0,
   ws |-> FALSE, unit |-> "", fname |-> "", r |-> 0, g |-> 0, b |-> 0,
   a |-> Absent, x |-> 0, y |-> 0, blur |-> 0, color |-> Absent]

TextStr(t) == [StrBase EXCEPT !.text = t]
HexStr(cs) == [StrBase EXCEPT !.kind = "hex", !.chars = cs]
DimStr(sign, num, unit) ==
  [StrBase EXCEPT !.kind = "dim", !.sign = sign, !.num = num, !.unit = unit]
RgbStr(fname, r, g, b, a) ==
  [StrBase EXCEPT !.kind = "rgb", !.fname = fname, !.r = r, !.g = g, !.b = b,
                  !.a = a]
HslStr(h, sPct, lPct) ==
  [StrBase EXCEPT !.kind = "hsl", !.r = h, !.g = sPct, !.b = lPct]
AliasStr(ref) == [StrBase EXCEPT !.kind = "alias", !.chars = ref]
ShadowStr(x, y, blur, color) ==
  [StrBase EXCEPT !.kind = "shadow", !.x = x, !.y = y, !.blur = blur,
                  !.color = Some(color)]

\* JSON values
JBase == [type |-> "null", str |-> Absent, num |-> 0, items |-> <<>>, entries |-> <<>>]
JNull == JBase
JStr(s) == [JBase EXCEPT !.type = "string", !.str = Some(s)]
JNum(n) == [JBase EXCEPT !.type = "number", !.num = n]
JArr(items) == [JBase EXCEPT !.type = "array", !.items = items]
JObj(entries) == [JBase EXCEPT !.type = "object", !.entries = entries]
Entry(name, value) == [name |-> name, value |-> value]

\* obj[key], Absent when the key is missing
Lookup(entries, name) ==
  IF \E i \in 1..Len(entries) : entries[i].name = name
  THEN Some(entries[CHOOSE i \in 1..Len(entries) : entries[i].name = name].value)
  ELSE Absent

\* obj[name] = e: replaces the entry of that name in place, or appends
Put(entries, e) ==
  IF \E i \in 1..Len(entries) : entries[i].name = e.name
  THEN [i \in 1..Len(entries) |->
          IF entries[i].name = e.name THEN e ELSE entries[i]]
  ELSE Append(entries, e)

\* Object.assign(target, source)
Assign(target, source) ==
  LET f[i \in 0..Len(source)] ==
        IF i = 0 THEN target ELSE Put(f[i - 1], source[i])
  IN  f[Len(source)]

\* a thrown Error, and a returned token set
Thrown(message) == [ok |-> FALSE, tokens |-> Absent, error |-> message]
Returned(tokens) == [ok |-> TRUE, tokens |-> Some(tokens), error |-> ""]

\* ------------------------------------------------------------------------
\* Tailwind extractor
\* ------------------------------------------------------------------------
\* /^#[0-9a-fA-F]{3,8}$/
isHexLike(value) == value.kind = "hex" /\ HexPattern(value.chars, 3, 8)

normalizeToHex(value) ==
  IF HexPattern(value.chars, 3, 3)
  THEN ToUpperCase(<<"#", value.chars[2], value.chars[2], value.chars[3],
                     value.chars[3], value.chars[4], value.chars[4]>>)
  ELSE ToUpperCase(value.chars)

PixelUnits == {"px", "rem", "em"}

\* /^(-?\d+(?:\.\d+)?)\s*(px|rem|em)?$/ then the unit switch; Absent is null
parseToPixels(value) ==
  IF value.kind = "dim" /\ value.unit \in PixelUnits \cup {""}
  THEN IF value.unit \in {"rem", "em"}
       THEN Some(value.sign * value.num * 16)
       ELSE Some(value.sign * value.num)
  ELSE Absent

\* parseInt(s, 10) in hundredths; Absent is NaN
ParseInt(value) ==
  IF value.kind = "dim"
  THEN Some(value.sign * H(value.num \div 100))
  ELSE Absent

\* n.toString(16) for n >= 0, upper case
HexChar(d) ==
  <<"0", "1", "2", "3", "4", "5", "6", "7", "8", "9",
    "A", "B", "C", "D", "E", "F">>[d + 1]

RECURSIVE ToHex(_)
ToHex(n) == IF n < 16 THEN <<HexChar(n)>> ELSE Append(ToHex(n \div 16), HexChar(n % 16))

\* n.toString(16).padStart(2, "0")
ToHex2(n) == IF n < 16 THEN <<"0", HexChar(n)>> ELSE ToHex(n)

\* the value of a hexadecimal digit
HexValue(c) ==
  CASE c \in Digits -> CHOOSE d \in 0..9 : HexChar(d) = c
    [] c \in UpperHex -> CHOOSE d \in 10..15 : HexChar(d) = c
    [] c \in LowerHex -> CHOOSE d \in 10..15 : HexChar(d) = UpperChar(c)

\* Math.round(p / q) for q > 0 (halves round up)
RoundDiv(p, q) == (2 * p + q) \div (2 * q)

\* the longest prefix of cs made of "#" and the hexadecimal digits after it
HexRun(cs) ==
  LET n == CHOOSE k \in 1..Len(cs) :
             /\ \A i \in 2..k : cs[i] \in HexDigits
             /\ k = Len(cs) \/ cs[k + 1] \notin HexDigits
  IN  SubSeq(cs, 1, n)

\* the color part of the shadow pattern: (rgba?\([^)]+\)|#[0-9a-fA-F]+)
ShadowColorMatches(c) ==
  \/ c.kind = "rgb"
  \/ c.kind = "hex" /\ Len(c.chars) >= 2 /\ c.chars[2] \in HexDigits

parseShadow(shadow) ==
  IF ~(shadow.kind = "shadow" /\ ShadowColorMatches(Get(shadow.color)))
  THEN Absent
  ELSE
    LET c == Get(shadow.color)
        colorStr == IF c.kind = "hex" THEN HexRun(c.chars) ELSE <<>>
        upper == ToUpperCase(colorStr)
        rgba == c.kind = "rgb" /\ c.fname = "rgba"
        shadowColor ==
          IF rgba THEN <<"#">> \o ToHex2(c.r) \o ToHex2(c.g) \o ToHex2(c.b)
          ELSE IF c.kind = "hex"
               THEN (IF Len(upper) = 9 THEN SubSeq(upper, 1, 7) ELSE upper)
               ELSE cBlackDefault
        shadowOpacity ==
          IF rgba THEN (IF c.a # Absent THEN Get(c.a) ELSE H(1))
          ELSE IF c.kind = "hex" /\ Len(upper) = 9
               THEN RoundDiv(100 * (16 * HexValue(upper[8]) + HexValue(upper[9])), 255)
               ELSE H(1)
    IN  Some([shadowColor |-> shadowColor,
              shadowOffset |-> [x |-> shadow.x, y |-> shadow.y],
              shadowRadius |-> shadow.blur,
              shadowOpacity |-> shadowOpacity])

\* typeof v === "object" && v !== null
IsObject(j) == j.type \in {"object", "array"}

\* Object.entries(v): an array's keys are its indices
ObjEntries(j) ==
  IF j.type = "array"
  THEN [i \in 1..Len(j.items) |-> Entry(<<HexChar(i - 1)>>, j.items[i])]
  ELSE j.entries

\* JavaScript truthiness
Truthy(j) ==
  CASE j.type = "null" -> FALSE
    [] j.type = "number" -> j.num # 0
    [] j.type = "string" -> Get(j.str) # TextStr("")
    [] OTHER -> TRUE

\* String(v) of a JSON value, as the string parseToPixels then reads
StringOf(j) ==
  CASE j.type = "string" -> Get(j.str)
    [] j.type = "number" ->
         DimStr(IF j.num < 0 THEN 0 - 1 ELSE 1, IF j.num < 0 THEN 0 - j.num ELSE j.num, "")
    [] j.type = "null" -> TextStr("null")
    [] OTHER -> TextStr("[object Object]")

\* the text of a string, for fields the schema does not look into
TextOf(str) == IF str.kind = "text" THEN str.text ELSE "(string)"

RECURSIVE extractColors(_, _)
extractColors(obj, prefix) ==
  LET f[i \in 0..Len(obj)] ==
        IF i = 0 THEN <<>>
        ELSE LET key == obj[i].name
                 value == obj[i].value
                 name == IF prefix # <<>> THEN prefix \o <<"-">> \o key ELSE key
             IN  IF value.type = "string" /\ isHexLike(Get(value.str))
                 THEN Put(f[i - 1], Color(name, normalizeToHex(Get(value.str))))
                 ELSE IF IsObject(value)
                      THEN Assign(f[i - 1], extractColors(ObjEntries(value), name))
                      ELSE f[i - 1]
  IN  f[Len(obj)]

\* value.match(...) on a value that is no string throws a TypeError
MatchThrows(j) == Truthy(j) /\ j.type # "string"

\* the options object of a fontSize tuple: { lineHeight, letterSpacing, fontWeight }
Option(opts, key) ==
  LET v == Lookup(opts.entries, key)
  IN  IF v # Absent /\ Truthy(Get(v)) THEN v ELSE Absent

kLineHeight == <<"l", "i", "n", "e", "H", "e", "i", "g", "h", "t">>
kLetterSpacing == <<"l", "e", "t", "t", "e", "r", "S", "p", "a", "c", "i", "n", "g">>
kFontWeight == <<"f", "o", "n", "t", "W", "e", "i", "g", "h", "t">>

\* one fontSize entry: threw, or the token it yields (Absent: skipped)
TypographyOf(name, value) ==
  IF value.type = "string"
  THEN LET px == parseToPixels(Get(value.str))
       IN  [threw |-> FALSE,
            token |-> IF px # Absent THEN Some(Typo(name, Get(px))) ELSE Absent]
  ELSE IF value.type # "array" THEN [threw |-> FALSE, token |-> Absent]
  ELSE
    LET first == IF Len(value.items) >= 1 THEN StringOf(value.items[1])
                 ELSE TextStr("undefined")
        px == parseToPixels(first)
        second == IF Len(value.items) >= 2 THEN value.items[2] ELSE JNull
        base == Typo(name, IF px = Absent THEN 0 ELSE Get(px))
    IN  IF px = Absent THEN [threw |-> FALSE, token |-> Absent]
        ELSE IF second.type = "string"
        THEN [threw |-> FALSE,
              token |-> Some([base EXCEPT !.lineHeight = parseToPixels(Get(second.str))])]
        ELSE IF ~IsObject(second) THEN [threw |-> FALSE, token |-> Some(base)]
        ELSE
          LET lh == Option(second, kLineHeight)
              ls == Option(second, kLetterSpacing)
              fw == Option(second, kFontWeight)
          IN  IF \/ lh # Absent /\ MatchThrows(Get(lh))
                 \/ ls # Absent /\ MatchThrows(Get(ls))
              THEN [threw |-> TRUE, token |-> Absent]
              ELSE [threw |-> FALSE,
                    token |-> Some(
                      [base EXCEPT
                         !.lineHeight =
                            IF lh = Absent THEN Absent
                            ELSE parseToPixels(Get(Get(lh).str)),
                         !.letterSpacing =
                            IF ls = Absent THEN Absent
                            ELSE parseToPixels(Get(Get(ls).str)),
                         !.fontWeight =
                            IF fw = Absent THEN Absent
                            ELSE ParseInt(StringOf(Get(fw)))])]

\* [threw, entries]
extractTypography(fontSize) ==
  LET f[i \in 0..Len(fontSize)] ==
        IF i = 0 THEN [threw |-> FALSE, entries |-> <<>>]
        ELSE LET t == TypographyOf(fontSize[i].name, fontSize[i].value)
             IN  IF f[i - 1].threw \/ t.threw THEN [threw |-> TRUE, entries |-> <<>>]
                 ELSE IF t.token = Absent THEN f[i - 1]
                 ELSE [threw |-> FALSE, entries |-> Put(f[i - 1].entries, Get(t.token))]
  IN  f[Len(fontSize)]

extractNumericMap(obj) ==
  LET f[i \in 0..Len(obj)] ==
        IF i = 0 THEN <<>>
        ELSE LET key == obj[i].name
                 value == obj[i].value
             IN  IF value.type = "number"
                 THEN Put(f[i - 1], Scalar(key, value.num))
                 ELSE IF value.type = "string" /\ parseToPixels(Get(value.str)) # Absent
                      THEN Put(f[i - 1],
                               Scalar(key, Get(parseToPixels(Get(value.str)))))
                      ELSE f[i - 1]
  IN  f[Len(obj)]

extractElevation(boxShadow) ==
  LET f[i \in 0..Len(boxShadow)] ==
        IF i = 0 THEN <<>>
        ELSE LET value == boxShadow[i].value
                 parsed == IF value.type = "string" THEN parseShadow(Get(value.str))
                           ELSE Absent
             IN  IF parsed = Absent THEN f[i - 1]
                 ELSE Put(f[i - 1],
                          Elevation(boxShadow[i].name, Get(parsed).shadowColor,
                                    Get(parsed).shadowOffset.x, Get(parsed).shadowOffset.y,
                                    Get(parsed).shadowRadius, Get(parsed).shadowOpacity))
  IN  f[Len(boxShadow)]

kExtend == <<"e", "x", "t", "e", "n", "d">>
kColors == <<"c", "o", "l", "o", "r", "s">>
kFontSize == <<"f", "o", "n", "t", "S", "i", "z", "e">>
kFontFamily == <<"f", "o", "n", "t", "F", "a", "m", "i", "l", "y">>
kSpacing == <<"s", "p", "a", "c", "i", "n", "g">>
kBorderRadius == <<"b", "o", "r", "d", "e", "r", "R", "a", "d", "i", "u", "s">>
kBoxShadow == <<"b", "o", "x", "S", "h", "a", "d", "o", "w">>
kFontPrefix == <<"f", "o", "n", "t", "-">>

\* themeObj.extend?.X ?? themeObj.X ; Absent is undefined or null
ThemeField(themeObj, key) ==
  LET ext == Lookup(themeObj.entries, kExtend)
      inExt == IF ext # Absent /\ Get(ext).type = "object"
               THEN Lookup(Get(ext).entries, key) ELSE Absent
      top == Lookup(themeObj.entries, key)
  IN  IF inExt # Absent /\ Get(inExt).type # "null" THEN inExt
      ELSE IF top # Absent /\ Get(top).type # "null" THEN top
      ELSE Absent

\* colors && typeof colors === "object"
ObjectField(themeObj, key) ==
  LET v == ThemeField(themeObj, key)
  IN  IF v # Absent /\ IsObject(Get(v)) THEN Some(ObjEntries(Get(v))) ELSE Absent

\* fontSize: 16, the default base size of a font family entry
kTailwindBaseSize == 16

\* the font-<key> entries written over the typography collection
FontFamilies(typography, fontFamily) ==
  LET f[i \in 0..Len(fontFamily)] ==
        IF i = 0 THEN typography
        ELSE LET value == fontFamily[i].value
                 family == IF value.type = "array"
                           THEN (IF Len(value.items) >= 1
                                 THEN TextOf(StringOf(value.items[1]))
                                 ELSE "undefined")
                           ELSE TextOf(StringOf(value))
             IN  Put(f[i - 1],
                     [Typo(kFontPrefix \o fontFamily[i].name, H(kTailwindBaseSize))
                        EXCEPT !.fontFamily = Some(family)])
  IN  f[Len(fontFamily)]

\* themeObj: the object extractThemeObject recovered, Absent when it found none
extractTokensFromTailwind(themeObj) ==
  IF themeObj = Absent
  THEN Thrown("Could not extract theme from Tailwind config. Ensure the config exports a theme or theme.extend object.")
  ELSE
    LET theme == Get(themeObj)
        colors == ObjectField(theme, kColors)
        fontSize == ObjectField(theme, kFontSize)
        fontFamily == ObjectField(theme, kFontFamily)
        spacing == ObjectField(theme, kSpacing)
        borderRadius == ObjectField(theme, kBorderRadius)
        boxShadow == ObjectField(theme, kBoxShadow)
        typo == IF fontSize = Absent THEN [threw |-> FALSE, entries |-> <<>>]
                ELSE extractTypography(Get(fontSize))
        tokens ==
          [colors |-> IF colors = Absent THEN Absent
                      ELSE Some(extractColors(Get(colors), <<>>)),
           typography |->
             IF fontFamily # Absent
             THEN Some(FontFamilies(typo.entries, Get(fontFamily)))
             ELSE IF fontSize # Absent THEN Some(typo.entries) ELSE Absent,
           spacing |-> IF spacing = Absent THEN Absent
                       ELSE Some(extractNumericMap(Get(spacing))),
           radii |-> IF borderRadius = Absent THEN Absent
                     ELSE Some(extractNumericMap(Get(borderRadius))),
           elevation |-> IF boxShadow = Absent THEN Absent
                         ELSE Some(extractElevation(Get(boxShadow))),
           motion |-> Absent]
    IN  IF typo.threw THEN Thrown("value.match is not a function")
        ELSE IF \A c \in CollectionNames : tokens[c] = Absent
        THEN Thrown("Tailwind config theme contained no extractable token values.")
        ELSE Returned(tokens)

\* ------------------------------------------------------------------------
\* CSS extractor
\* ------------------------------------------------------------------------
\* s.startsWith(p)
StartsWith(s, p) == Len(s) >= Len(p) /\ SubSeq(s, 1, Len(p)) = p

\* s.includes(sub)
Includes(s, sub) ==
  \E i \in 1..(Len(s) - Len(sub) + 1) : SubSeq(s, i, i + Len(sub) - 1) = sub

\* s.slice(n)
Drop(s, n) == SubSeq(s, n + 1, Len(s))

\* s.match(/^(p1|p2|...)/) for the alternatives ps
StartsWithAny(s, ps) == \E i \in 1..Len(ps) : StartsWith(s, ps[i])

\* s.replace(/^(p1|p2|...)/, ""): the first alternative that matches is removed
StripFirst(s, ps) ==
  IF StartsWithAny(s, ps)
  THEN Drop(s, Len(ps[CHOOSE i \in 1..Len(ps) :
                        /\ StartsWith(s, ps[i])
                        /\ \A j \in 1..(i - 1) : ~StartsWith(s, ps[j])]))
  ELSE s

\* vars.set(name, value) on every declaration: the last declaration wins
parseCustomPropertiesOverwriting(css) ==
  LET f[i \in 0..Len(css)] ==
        IF i = 0 THEN <<>> ELSE Put(f[i - 1], css[i])
  IN  f[Len(css)]

\* the declarations --name: value; of the text, in source order; the first
\* declaration of a name wins
parseCustomProperties(css) ==
  LET f[i \in 0..Len(css)] ==
        IF i = 0 THEN <<>>
        ELSE IF \E j \in 1..Len(f[i - 1]) : f[i - 1][j].name = css[i].name
             THEN f[i - 1]
             ELSE Append(f[i - 1], css[i])
  IN  f[Len(css)]

normalizeHex(hex) ==
  IF HexPattern(hex, 3, 3)
  THEN ToUpperCase(<<"#", hex[2], hex[2], hex[3], hex[3], hex[4], hex[4]>>)
  ELSE ToUpperCase(hex)

\* Math.round(v).toString(16).padStart(2, "0") for an integer v, upper-cased
SignedHex2(v) ==
  IF v >= 0 THEN ToHex2(v)
  ELSE <<"-">> \o ToHex(0 - v)

\* hslToHex for a whole hue h and whole percentages s and l:
\* k = (n + h/30) % 12 and color = l - a * max(min(k - 3, 9 - k, 1), -1)
HslChannel(n, h, sPct, lPct) ==
  LET k30 == (30 * n + h) % 360
      m30 == Max(Min(Min(k30 - 90, 270 - k30), 30), 0 - 30)
      num == 255 * (3000 * lPct - sPct * Min(lPct, 100 - lPct) * m30)
  IN  SignedHex2((2 * num + 300000) \div 600000)

hslToHex(h, sPct, lPct) ==
  <<"#">> \o HslChannel(0, h, sPct, lPct) \o HslChannel(8, h, sPct, lPct)
          \o HslChannel(4, h, sPct, lPct)

\* the rgb()/hsl() call the unanchored patterns find in a value
FunctionalPart(value) ==
  IF value.kind = "shadow" THEN Get(value.color) ELSE value

\* Absent is null
colorToHex(value) ==
  IF value.kind = "hex" /\ HexPattern(value.chars, 3, 8)
  THEN Some(normalizeHex(value.chars))
  ELSE LET c == FunctionalPart(value)
       IN  IF c.kind = "rgb" /\ c.r <= 999 /\ c.g <= 999 /\ c.b <= 999
           THEN Some(<<"#">> \o ToHex2(c.r) \o ToHex2(c.g) \o ToHex2(c.b))
           ELSE IF c.kind = "hsl" THEN Some(hslToHex(c.r, c.g, c.b))
           ELSE Absent

parseToPixelsCss(value) ==
  IF value.kind = "dim" /\ value.unit \in PixelUnits \cup {""}
  THEN IF value.unit \in {"rem", "em"}
       THEN Some(value.sign * value.num * 16)
       ELSE Some(value.sign * value.num)
  ELSE Absent

parseShadowValue(value) ==
  IF ~(value.kind = "shadow" /\ ShadowColorMatches(Get(value.color)))
  THEN Absent
  ELSE
    LET c == Get(value.color)
        colorStr == IF c.kind = "hex" THEN HexStr(HexRun(c.chars)) ELSE c
        hex == colorToHex(colorStr)
    IN  Some([shadowColor |-> IF hex # Absent THEN Get(hex) ELSE cBlackDefault,
              shadowOffset |-> [x |-> value.x, y |-> value.y],
              shadowRadius |-> value.blur,
              shadowOpacity |->
                IF c.kind = "rgb" /\ c.a # Absent THEN Get(c.a) ELSE H(1)])

wSize == <<"s", "i", "z", "e">>
wFontSize == <<"f", "o", "n", "t", "-", "s", "i", "z", "e">>
wWeight == <<"w", "e", "i", "g", "h", "t">>
wFamily == <<"f", "a", "m", "i", "l", "y">>
wLineHeight == <<"l", "i", "n", "e", "-", "h", "e", "i", "g", "h", "t">>
wLeading == <<"l", "e", "a", "d", "i", "n", "g">>

\* a partial typography token, Absent when the property maps to none
parseTypographyValue(name, value) ==
  LET none == [Typo(<<>>, 0) EXCEPT !.fontSize = Absent]
  IN  IF Includes(name, wSize) /\ parseToPixelsCss(value) # Absent
      THEN Some([none EXCEPT !.fontSize = parseToPixelsCss(value)])
      ELSE IF Includes(name, wWeight) /\ ParseInt(value) # Absent
      THEN Some([none EXCEPT !.fontWeight = ParseInt(value)])
      ELSE IF Includes(name, wFamily)
      THEN Some([none EXCEPT !.fontFamily = Some(TextOf(value))])
      ELSE IF (Includes(name, wLineHeight) \/ Includes(name, wLeading))
              /\ parseToPixelsCss(value) # Absent
      THEN Some([none EXCEPT !.lineHeight = parseToPixelsCss(value)])
      ELSE Absent

\* { ...old, ...typo }
MergeTypo(old, typo) ==
  [name |-> old.name,
   fontSize |-> IF typo.fontSize # Absent THEN typo.fontSize ELSE old.fontSize,
   lineHeight |-> IF typo.lineHeight # Absent THEN typo.lineHeight ELSE old.lineHeight,
   fontWeight |-> IF typo.fontWeight # Absent THEN typo.fontWeight ELSE old.fontWeight,
   letterSpacing |-> IF typo.letterSpacing # Absent THEN typo.letterSpacing
                     ELSE old.letterSpacing,
   fontFamily |-> IF typo.fontFamily # Absent THEN typo.fontFamily ELSE old.fontFamily]

pDashes == <<<<"-", "-">>>>
pColorDash == <<<<"c", "o", "l", "o", "r", "-">>,
    <<"c", "l", "r", "-">>>>
pFontDash == <<<<"f", "o", "n", "t", "-">>,
    <<"t", "y", "p", "e", "-">>,
    <<"t", "e", "x", "t", "-">>>>
pSpaceDash == <<<<"s", "p", "a", "c", "e", "-">>,
    <<"s", "p", "a", "c", "i", "n", "g", "-">>>>
pRadiusDash == <<<<"r", "a", "d", "i", "u", "s", "-">>,
    <<"r", "a", "d", "i", "i", "-">>,
    <<"r", "o", "u", "n", "d", "e", "d", "-">>>>
pShadowDash == <<<<"s", "h", "a", "d", "o", "w", "-">>,
    <<"e", "l", "e", "v", "a", "t", "i", "o", "n", "-">>>>
pTypoKey == <<<<"s", "i", "z", "e", "-">>,
    <<"s", "i", "z", "e">>,
    <<"w", "e", "i", "g", "h", "t", "-">>,
    <<"w", "e", "i", "g", "h", "t">>,
    <<"f", "a", "m", "i", "l", "y", "-">>,
    <<"f", "a", "m", "i", "l", "y">>,
    <<"h", "e", "i", "g", "h", "t", "-">>,
    <<"h", "e", "i", "g", "h", "t">>>>
pIsColor == <<<<"-", "-", "c", "o", "l", "o", "r">>,
    <<"-", "-", "c", "l", "r">>,
    <<"-", "-", "b", "g">>,
    <<"-", "-", "f", "g">>,
    <<"-", "-", "t", "e", "x", "t", "-", "c", "o", "l", "o", "r">>,
    <<"-", "-", "b", "o", "r", "d", "e", "r", "-", "c", "o", "l", "o", "r">>>>
pIsTypo == <<<<"-", "-", "f", "o", "n", "t">>,
    <<"-", "-", "t", "y", "p", "e">>,
    <<"-", "-", "t", "e", "x", "t">>>>
pIsSpace == <<<<"-", "-", "s", "p", "a", "c", "e">>,
    <<"-", "-", "s", "p", "a", "c", "i", "n", "g">>,
    <<"-", "-", "g", "a", "p">>,
    <<"-", "-", "p", "a", "d", "d", "i", "n", "g">>,
    <<"-", "-", "m", "a", "r", "g", "i", "n">>>>
pIsRadius == <<<<"-", "-", "r", "a", "d", "i", "u", "s">>,
    <<"-", "-", "r", "a", "d", "i", "i">>,
    <<"-", "-", "r", "o", "u", "n", "d", "e", "d">>,
    <<"-", "-", "b", "o", "r", "d", "e", "r", "-", "r", "a", "d", "i", "u", "s">>>>
pIsShadow == <<<<"-", "-", "s", "h", "a", "d", "o", "w">>,
    <<"-", "-", "e", "l", "e", "v", "a", "t", "i", "o", "n">>>>

\* the chain of .replace() calls that names the token
TokenName(name) ==
  StripFirst(StripFirst(StripFirst(StripFirst(StripFirst(StripFirst(
    name, pDashes), pColorDash), pFontDash), pSpaceDash), pRadiusDash), pShadowDash)

EmptyCollections ==
  [colors |-> <<>>, typography |-> <<>>, spacing |-> <<>>, radii |-> <<>>,
   elevation |-> <<>>, motion |-> <<>>]

\* the body of the loop over the custom properties
CssProperty(acc, name, value) ==
  LET tokenName == TokenName(name)
      hex == colorToHex(value)
      px == parseToPixelsCss(value)
  IN  IF StartsWithAny(name, pIsColor)
      THEN IF hex = Absent THEN acc
           ELSE [acc EXCEPT !.colors = Put(@, Color(tokenName, Get(hex)))]
      ELSE IF StartsWithAny(name, pIsTypo)
      THEN LET typo == parseTypographyValue(name, value)
               key == StripFirst(tokenName, pTypoKey)
               old == Lookup([i \in 1..Len(acc.typography) |->
                                Entry(acc.typography[i].name, acc.typography[i])],
                             key)
               fresh == [Typo(key, 0) EXCEPT !.fontSize = Absent]
           IN  IF typo = Absent \/ key = <<>> THEN acc
               ELSE [acc EXCEPT !.typography =
                       Put(@, MergeTypo(IF old = Absent THEN fresh ELSE Get(old),
                                        Get(typo)))]
      ELSE IF StartsWithAny(name, pIsSpace)
      THEN IF px = Absent THEN acc
           ELSE [acc EXCEPT !.spacing = Put(@, Scalar(tokenName, Get(px)))]
      ELSE IF StartsWithAny(name, pIsRadius)
      THEN IF px = Absent THEN acc
           ELSE [acc EXCEPT !.radii = Put(@, Scalar(tokenName, Get(px)))]
      ELSE IF StartsWithAny(name, pIsShadow)
      THEN LET parsed == parseShadowValue(value)
           IN  IF parsed = Absent THEN acc
               ELSE [acc EXCEPT !.elevation =
                       Put(@, Elevation(tokenName, Get(parsed).shadowColor,
                                        Get(parsed).shadowOffset.x,
                                        Get(parsed).shadowOffset.y,
                                        Get(parsed).shadowRadius,
                                        Get(parsed).shadowOpacity))]
      ELSE IF hex # Absent
      THEN [acc EXCEPT !.colors = Put(@, Color(tokenName, Get(hex)))]
      ELSE IF px # Absent
      THEN [acc EXCEPT !.spacing = Put(@, Scalar(tokenName, Get(px)))]
      ELSE acc

\* if (Object.keys(c).length > 0) tokens.c = c, for every collection
NonEmptyCollections(acc) ==
  [c \in CollectionNames |-> IF Len(acc[c]) > 0 THEN Some(acc[c]) ELSE Absent]

\* cssContent: the declarations of the text, in source order
extractTokensFromCSS(cssContent) ==
  LET props == parseCustomProperties(cssContent)
      f[i \in 0..Len(props)] ==
        IF i = 0 THEN EmptyCollections
        ELSE CssProperty(f[i - 1], props[i].name, props[i].value)
      tokens == NonEmptyCollections(f[Len(props)])
  IN  IF Len(props) = 0
      THEN Thrown("No CSS custom properties found in the provided CSS.")
      ELSE IF \A c \in CollectionNames : tokens[c] = Absent
      THEN Thrown("CSS custom properties found but none could be mapped to design tokens.")
      ELSE Returned(tokens)

\* ------------------------------------------------------------------------
\* Figma variables extractor
\* ------------------------------------------------------------------------
LowerLetters == <<"a", "b", "c", "d", "e", "f", "g", "h", "i", "j", "k", "l", "m", "n", "o", "p", "q", "r", "s", "t", "u", "v", "w", "x", "y", "z">>
UpperLetters == <<"A", "B", "C", "D", "E", "F", "G", "H", "I", "J", "K", "L", "M", "N", "O", "P", "Q", "R", "S", "T", "U", "V", "W", "X", "Y", "Z">>
IsLower(c) == \E i \in 1..26 : LowerLetters[i] = c
IsUpper(c) == \E i \in 1..26 : UpperLetters[i] = c
LowerChar(c) ==
  IF IsUpper(c) THEN LowerLetters[CHOOSE i \in 1..26 : UpperLetters[i] = c] ELSE c
ToLowerCase(s) == [i \in 1..Len(s) |-> LowerChar(s[i])]

\* a value of valuesByMode: a color { r, g, b } (channels in hundredths),
\* a number, a string, an alias { type: "VARIABLE_ALIAS", id }, or undefined;
\* TypeError stands for the evaluation that threw instead of yielding a value
FvBase == [type |-> "undefined", r |-> 0, g |-> 0, b |-> 0, num |-> 0, id |-> ""]
FvUndefined == FvBase
FvColor(r, g, b) == [FvBase EXCEPT !.type = "color", !.r = r, !.g = g, !.b = b]
FvNumber(n) == [FvBase EXCEPT !.type = "number", !.num = n]
FvString == [FvBase EXCEPT !.type = "string"]
FvAlias(id) == [FvBase EXCEPT !.type = "alias", !.id = id]
FvTypeError == [FvBase EXCEPT !.type = "TypeError"]

\* a variable of the export; hasValues is FALSE when it carries no
\* valuesByMode, variableCollectionId names the collection it belongs to
FigmaVariable(id, name, resolvedType, valuesByMode) ==
  [id |-> id, name |-> name, resolvedType |-> resolvedType,
   hasValues |-> TRUE, valuesByMode |-> valuesByMode,
   variableCollectionId |-> "c1"]

FigmaVariableCollection(id, defaultModeId) ==
  [id |-> id, defaultModeId |-> defaultModeId]

\* variables[id], Absent when there is none
VariableById(variables, id) ==
  IF \E i \in 1..Len(variables) : variables[i].id = id
  THEN Some(variables[CHOOSE i \in 1..Len(variables) : variables[i].id = id])
  ELSE Absent

\* valuesByMode[modeId]; modeId Absent is undefined
ValueInMode(valuesByMode, modeId) ==
  LET v == IF modeId = Absent THEN Absent ELSE Lookup(valuesByMode, Get(modeId))
  IN  IF v = Absent THEN FvUndefined ELSE Get(v)

RECURSIVE resolveAlias(_, _, _, _)
resolveAlias(value, variables, modeId, maxDepth) ==
  IF maxDepth <= 0 THEN value
  ELSE IF value.type = "alias" /\ VariableById(variables, value.id) # Absent
  THEN LET target == Get(VariableById(variables, value.id))
           inMode == ValueInMode(target.valuesByMode, modeId)
           targetValue ==
             IF inMode.type # "undefined" THEN inMode
             ELSE IF Len(target.valuesByMode) > 0 THEN target.valuesByMode[1].value
             ELSE FvUndefined
       IN  IF ~target.hasValues THEN FvTypeError
           ELSE resolveAlias(targetValue, variables, modeId, maxDepth - 1)
  ELSE value

isColorValue(value) == value.type = "color"

\* Math.round(c * 255).toString(16).padStart(2, "0") per channel
figmaColorToHex(color) ==
  <<"#">> \o SignedHex2(RoundDiv(color.r * 255, 100))
          \o SignedHex2(RoundDiv(color.g * 255, 100))
          \o SignedHex2(RoundDiv(color.b * 255, 100))

\* name.split("/").pop()
LastSegment(name) ==
  LET slashes == {i \in 1..Len(name) : name[i] = "/"}
  IN  IF slashes = {} THEN name
      ELSE Drop(name, CHOOSE i \in slashes : \A j \in slashes : j <= i)

\* .replace(/\s+/g, "-")
SpacesToHyphens(s) ==
  LET f[i \in 0..Len(s)] ==
        IF i = 0 THEN <<>>
        ELSE IF s[i] # " " THEN Append(f[i - 1], s[i])
        ELSE IF i > 1 /\ s[i - 1] = " " THEN f[i - 1]
        ELSE Append(f[i - 1], "-")
  IN  f[Len(s)]

\* .replace(/([a-z])([A-Z])/g, "$1-$2")
CamelToKebab(s) ==
  LET f[i \in 0..Len(s)] ==
        IF i = 0 THEN <<>>
        ELSE IF i > 1 /\ IsLower(s[i - 1]) /\ IsUpper(s[i])
        THEN f[i - 1] \o <<"-", s[i]>>
        ELSE Append(f[i - 1], s[i])
  IN  f[Len(s)]

normalizeVariableName(name) ==
  ToLowerCase(CamelToKebab(SpacesToHyphens(LastSegment(name))))

CategoryWords ==
  <<[category |-> "primary", words |-> {<<"p", "r", "i", "m", "a", "r", "y">>}],
    [category |-> "secondary", words |-> {<<"s", "e", "c", "o", "n", "d", "a", "r", "y">>}],
    [category |-> "tertiary", words |-> {<<"t", "e", "r", "t", "i", "a", "r", "y">>}],
    [category |-> "neutral", words |-> {<<"n", "e", "u", "t", "r", "a", "l">>, <<"g", "r", "a", "y">>, <<"g", "r", "e", "y">>}],
    [category |-> "error", words |-> {<<"e", "r", "r", "o", "r">>, <<"d", "a", "n", "g", "e", "r">>, <<"d", "e", "s", "t", "r", "u", "c", "t", "i", "v", "e">>}],
    [category |-> "surface", words |-> {<<"s", "u", "r", "f", "a", "c", "e">>}],
    [category |-> "background", words |-> {<<"b", "a", "c", "k", "g", "r", "o", "u", "n", "d">>, <<"b", "g">>}]>>

\* Absent is undefined
inferColorCategory(name) ==
  LET lower == ToLowerCase(name)
      hits == {i \in 1..Len(CategoryWords) :
                 \E w \in CategoryWords[i].words : Includes(lower, w)}
  IN  IF hits = {} THEN Absent
      ELSE Some(CategoryWords[CHOOSE i \in hits : \A j \in hits : i <= j].category)

wRadius == <<"r", "a", "d", "i", "u", "s">>
wCorner == <<"c", "o", "r", "n", "e", "r">>
kAliasDepth == 10

\* defaultModeId ?? Object.keys(variable.valuesByMode)[0]
ModeOf(variable, defaultModeId) ==
  IF defaultModeId # Absent THEN defaultModeId
  ELSE IF Len(variable.valuesByMode) > 0
       THEN Some(variable.valuesByMode[1].name)
       ELSE Absent

\* resolution that follows one alias reference more than the code allows
ResolvedValueDeeper(variable, variables, defaultModeId) ==
  IF ~variable.hasValues THEN FvTypeError
  ELSE resolveAlias(ValueInMode(variable.valuesByMode,
                                ModeOf(variable, defaultModeId)),
                    variables, ModeOf(variable, defaultModeId), kAliasDepth + 1)

\* the value of a variable after alias resolution; reading valuesByMode of a
\* variable that has none throws a TypeError
ResolvedValue(variable, variables, defaultModeId) ==
  IF ~variable.hasValues THEN FvTypeError
  ELSE resolveAlias(ValueInMode(variable.valuesByMode,
                                ModeOf(variable, defaultModeId)),
                    variables, ModeOf(variable, defaultModeId), kAliasDepth)

\* the body of the loop over the variables
FigmaProperty(acc, variable, variables, defaultModeId) ==
  LET value == ResolvedValue(variable, variables, defaultModeId)
      name == normalizeVariableName(variable.name)
      lowerName == ToLowerCase(variable.name)
  IN  IF variable.resolvedType = "COLOR" /\ isColorValue(value)
      THEN [acc EXCEPT !.colors =
              Put(@, [Color(name, figmaColorToHex(value))
                        EXCEPT !.category = inferColorCategory(variable.name)])]
      ELSE IF variable.resolvedType = "FLOAT" /\ value.type = "number"
      THEN IF Includes(lowerName, wRadius) \/ Includes(lowerName, wCorner)
           THEN [acc EXCEPT !.radii = Put(@, Scalar(name, value.num))]
           ELSE [acc EXCEPT !.spacing = Put(@, Scalar(name, value.num))]
      ELSE acc

\* the parsed export: its variables and variableCollections, in key order
FigmaExport(variables, collections) ==
  [wellFormed |-> TRUE, isNull |-> FALSE, variables |-> variables,
   collections |-> collections]
\* text JSON.parse throws on, and the text "null"
MalformedFigmaJson ==
  [wellFormed |-> FALSE, isNull |-> FALSE, variables |-> <<>>, collections |-> <<>>]
NullFigmaJson ==
  [wellFormed |-> TRUE, isNull |-> TRUE, variables |-> <<>>, collections |-> <<>>]

\* data: the value JSON.parse returned
extractTokensFromFigmaVariables(data) ==
  LET variables == data.variables
      defaultModeId == IF Len(data.collections) > 0
                       THEN data.collections[1].defaultModeId
                       ELSE Absent
      f[i \in 0..Len(variables)] ==
        IF i = 0 THEN EmptyCollections
        ELSE FigmaProperty(f[i - 1], variables[i], variables, defaultModeId)
      tokens == NonEmptyCollections(f[Len(variables)])
  IN  IF ~data.wellFormed
      THEN Thrown("Invalid JSON: could not parse Figma variables export.")
      ELSE IF data.isNull
      THEN Thrown("TypeError: Cannot read properties of null (reading 'variables')")
      ELSE IF Len(variables) = 0
      THEN Thrown("No variables found in the Figma export.")
      ELSE IF \E i \in 1..Len(variables) :
                ResolvedValue(variables[i], variables, defaultModeId) = FvTypeError
      THEN Thrown("TypeError: Cannot read properties of undefined")
      ELSE IF \A c \in CollectionNames : tokens[c] = Absent
      THEN Thrown("Figma variables found but none could be mapped to design tokens.")
      ELSE Returned(tokens)

\* ------------------------------------------------------------------------
\* W3C DTCG extractor
\* ------------------------------------------------------------------------
kValue == <<"$", "v", "a", "l", "u", "e">>
kType == <<"$", "t", "y", "p", "e">>
kDescription == <<"$", "d", "e", "s", "c", "r", "i", "p", "t", "i", "o", "n">>
kColor == <<"c", "o", "l", "o", "r">>
kOffsetX == <<"o", "f", "f", "s", "e", "t", "X">>
kOffsetY == <<"o", "f", "f", "s", "e", "t", "Y">>
kBlur == <<"b", "l", "u", "r">>

\* a $type as the switch compares it
TypeText(j) == IF j.type = "string" THEN TextOf(Get(j.str)) ELSE "(not a string)"

\* [...path, key].join(".")
JoinKeys(path, key) == IF path = <<>> THEN key ELSE path \o <<".">> \o key

DTCGToken(path, value, type) == [name |-> path, value |-> value, type |-> type]

\* result after flattenTokens(obj, path, result, inheritedType); the path is
\* kept joined, Absent is an undefined type
RECURSIVE flattenTokens(_, _, _, _)
flattenTokens(obj, path, result, inheritedType) ==
  LET own == Lookup(obj, kType)
      groupType == IF own # Absent /\ Get(own).type = "string"
                   THEN Some(TypeText(Get(own))) ELSE inheritedType
      f[i \in 0..Len(obj)] ==
        IF i = 0 THEN result
        ELSE LET key == obj[i].name
                 value == obj[i].value
                 record == ObjEntries(value)
                 type == Lookup(record, kType)
             IN  IF StartsWith(key, <<"$">>) \/ ~IsObject(value) THEN f[i - 1]
                 ELSE IF value.type = "object" /\ Lookup(record, kValue) # Absent
                 THEN Put(f[i - 1],
                          DTCGToken(JoinKeys(path, key), Get(Lookup(record, kValue)),
                                    IF type # Absent /\ Get(type).type # "null"
                                    THEN Some(TypeText(Get(type))) ELSE groupType))
                 ELSE flattenTokens(record, JoinKeys(path, key), f[i - 1], groupType)
  IN  f[Len(obj)]

kMaxAliasDepth == 10

RECURSIVE resolveAliases(_, _, _)
resolveAliases(value, tokens, depth) ==
  IF depth > kMaxAliasDepth THEN value
  ELSE IF value.type = "string" /\ Get(value.str).kind = "alias"
          /\ \E i \in 1..Len(tokens) : tokens[i].name = Get(value.str).chars
  THEN resolveAliases(
         tokens[CHOOSE i \in 1..Len(tokens) :
                  tokens[i].name = Get(value.str).chars].value,
         tokens, depth + 1)
  ELSE value

\* Absent is undefined
inferType(value) ==
  IF value.type = "string"
  THEN LET str == Get(value.str)
       IN  IF str.kind = "hex" /\ HexPattern(str.chars, 3, 8) THEN Some("color")
           ELSE IF str.kind = "rgb" THEN Some("color")
           ELSE IF str.kind = "dim" /\ str.sign = 1 /\ ~str.ws
                   /\ str.unit \in PixelUnits THEN Some("dimension")
           ELSE IF str.kind = "dim" /\ str.sign = 1 /\ ~str.ws /\ str.unit = "ms"
           THEN Some("duration")
           ELSE Absent
  ELSE IF value.type = "object" /\ Lookup(value.entries, kColor) # Absent
          /\ Lookup(value.entries, kOffsetX) # Absent
  THEN Some("shadow")
  ELSE Absent

\* Absent is null
normalizeColor(value) ==
  IF value.kind = "hex" /\ HexPattern(value.chars, 3, 3)
  THEN Some(ToUpperCase(<<"#", value.chars[2], value.chars[2], value.chars[3],
                          value.chars[3], value.chars[4], value.chars[4]>>))
  ELSE IF value.kind = "hex" /\ HexPattern(value.chars, 6, 8)
  THEN Some(ToUpperCase(value.chars))
  ELSE Absent

\* value: a JSON value, or Absent for a missing field
parseDimension(value) ==
  IF value = Absent THEN Absent
  ELSE IF Get(value).type = "number" THEN Some(Get(value).num)
  ELSE IF Get(value).type = "string" THEN parseToPixels(Get(Get(value).str))
  ELSE Absent

parseDuration(value) ==
  IF value.type = "number" THEN Some(value.num)
  ELSE IF value.type = "string" /\ Get(value.str).kind = "dim"
          /\ Get(value.str).sign = 1 /\ Get(value.str).unit \in {"ms", "s"}
  THEN IF Get(value.str).unit = "ms" THEN Some(Get(value.str).num)
       ELSE Some(Get(value.str).num * 1000)
  ELSE Absent

\* x ?? d
OrElse(x, d) == IF x # Absent THEN Get(x) ELSE d

\* parseShadow of the DTCG extractor
dtcgParseShadow(value) ==
  IF ~IsObject(value) THEN Absent
  ELSE
    LET v == ObjEntries(value)
        c == Lookup(v, kColor)
        color == IF c # Absent /\ Get(c).type = "string"
                 THEN normalizeColor(Get(Get(c).str)) ELSE Some(cBlackDefault)
    IN  Some([shadowColor |-> OrElse(color, cBlackDefault),
              shadowOffset |-> [x |-> OrElse(parseDimension(Lookup(v, kOffsetX)), 0),
                                y |-> OrElse(parseDimension(Lookup(v, kOffsetY)), 0)],
              shadowRadius |-> OrElse(parseDimension(Lookup(v, kBlur)), 0),
              shadowOpacity |-> H(1)])

\* Number(v)
RECURSIVE ToNumber(_)
ToNumber(j) ==
  CASE j.type = "number" -> j.num
    [] j.type = "null" -> 0
    [] j.type = "string" ->
         (IF Get(j.str).kind = "dim" /\ Get(j.str).unit = ""
          THEN Get(j.str).sign * Get(j.str).num
          ELSE IF Get(j.str) = TextStr("") THEN 0 ELSE NaN)
    [] j.type = "array" ->
         (IF Len(j.items) = 0 THEN 0
          ELSE IF Len(j.items) = 1 /\ j.items[1].type # "null"
          THEN ToNumber(j.items[1])
          ELSE IF Len(j.items) = 1 THEN 0 ELSE NaN)
    [] OTHER -> NaN

\* `${v}` of an array element; a number prints its hundredths
Show(j) == IF j.type = "number" THEN ToString(j.num) ELSE TextOf(StringOf(j))

\* path.split(".").pop()
LastDotSegment(path) ==
  LET dots == {i \in 1..Len(path) : path[i] = "."}
  IN  IF dots = {} THEN path
      ELSE Drop(path, CHOOSE i \in dots : \A j \in dots : j <= i)

\* collection[name], Absent when there is none
TokenNamed(collection, name) ==
  IF \E i \in 1..Len(collection) : collection[i].name = name
  THEN Some(collection[CHOOSE i \in 1..Len(collection) : collection[i].name = name])
  ELSE Absent

kDefaultFontSize == 16
kDefaultDuration == 300

\* the typography composite
CompositeTypography(name, comp) ==
  LET field(k) == Lookup(comp, k)
      set(k) == field(k) # Absent /\ Truthy(Get(field(k)))
  IN  [Typo(name, OrElse(parseDimension(field(kFontSize)), H(kDefaultFontSize)))
         EXCEPT !.fontFamily = IF set(kFontFamily)
                               THEN Some(TextOf(StringOf(Get(field(kFontFamily)))))
                               ELSE Absent,
                !.fontWeight = IF set(kFontWeight)
                               THEN Some(ToNumber(Get(field(kFontWeight))))
                               ELSE Absent,
                !.lineHeight = IF set(kLineHeight)
                               THEN parseDimension(field(kLineHeight)) ELSE Absent,
                !.letterSpacing = IF set(kLetterSpacing)
                                  THEN parseDimension(field(kLetterSpacing))
                                  ELSE Absent]

\* inferType(resolvedValue) ?? token.$type: the shape of the value first
EffectiveTypeInferredFirst(token, flatTokens) ==
  IF inferType(resolveAliases(token.value, flatTokens, 0)) # Absent
  THEN inferType(resolveAliases(token.value, flatTokens, 0))
  ELSE token.type

\* token.$type ?? inferType(resolvedValue)
EffectiveType(token, flatTokens) ==
  IF token.type # Absent THEN token.type
  ELSE inferType(resolveAliases(token.value, flatTokens, 0))

\* the body of the loop over the flattened tokens
DtcgProperty(acc, token, flatTokens) ==
  LET resolvedValue == resolveAliases(token.value, flatTokens, 0)
      type == EffectiveType(token, flatTokens)
      path == token.name
      name == LastDotSegment(path)
      lowerPath == ToLowerCase(path)
      px == parseDimension(Some(resolvedValue))
      oldTypo == TokenNamed(acc.typography, name)
      baseTypo == IF oldTypo # Absent THEN Get(oldTypo)
                  ELSE [Typo(name, 0) EXCEPT !.fontSize = Absent]
      sized == IF baseTypo.fontSize # Absent THEN baseTypo
               ELSE [baseTypo EXCEPT !.fontSize = Some(H(kDefaultFontSize))]
      oldMotion == TokenNamed(acc.motion, name)
  IN  IF type = Absent THEN acc
      ELSE CASE Get(type) = "color" ->
             (IF resolvedValue.type = "string"
                 /\ normalizeColor(Get(resolvedValue.str)) # Absent
              THEN [acc EXCEPT !.colors =
                      Put(@, Color(name, Get(normalizeColor(Get(resolvedValue.str)))))]
              ELSE acc)
        [] Get(type) = "dimension" ->
             (IF px = Absent THEN acc
              ELSE IF Includes(lowerPath, wRadius) \/ Includes(lowerPath, wCorner)
              THEN [acc EXCEPT !.radii = Put(@, Scalar(name, Get(px)))]
              ELSE [acc EXCEPT !.spacing = Put(@, Scalar(name, Get(px)))])
        [] Get(type) = "typography" /\ IsObject(resolvedValue) ->
             [acc EXCEPT !.typography =
                Put(@, CompositeTypography(name, ObjEntries(resolvedValue)))]
        [] Get(type) = "fontSize" ->
             (IF px = Absent THEN acc
              ELSE [acc EXCEPT !.typography = Put(@, [baseTypo EXCEPT !.fontSize = px])])
        [] Get(type) = "fontWeight" /\ resolvedValue.type = "number" ->
             [acc EXCEPT !.typography =
                Put(@, [sized EXCEPT !.fontWeight = Some(resolvedValue.num)])]
        [] Get(type) = "fontFamily" /\ resolvedValue.type = "string" ->
             [acc EXCEPT !.typography =
                Put(@, [sized EXCEPT !.fontFamily = Some(TextOf(Get(resolvedValue.str)))])]
        [] Get(type) = "shadow" ->
             (LET shadow == dtcgParseShadow(resolvedValue)
              IN  IF shadow = Absent THEN acc
                  ELSE [acc EXCEPT !.elevation =
                          Put(@, Elevation(name, Get(shadow).shadowColor,
                                           Get(shadow).shadowOffset.x,
                                           Get(shadow).shadowOffset.y,
                                           Get(shadow).shadowRadius,
                                           Get(shadow).shadowOpacity))])
        [] Get(type) = "duration" ->
             (IF parseDuration(resolvedValue) = Absent THEN acc
              ELSE [acc EXCEPT !.motion =
                      Put(@, Motion(name, Get(parseDuration(resolvedValue)), "ease"))])
        [] Get(type) = "cubicBezier" ->
             (IF resolvedValue.type = "array" /\ Len(resolvedValue.items) = 4
              THEN [acc EXCEPT !.motion =
                      Put(@, Motion(name,
                                    IF oldMotion # Absent THEN Get(oldMotion).duration
                                    ELSE H(kDefaultDuration),
                                    "cubic-bezier(" \o Show(resolvedValue.items[1])
                                      \o ", " \o Show(resolvedValue.items[2])
                                      \o ", " \o Show(resolvedValue.items[3])
                                      \o ", " \o Show(resolvedValue.items[4]) \o ")"))]
              ELSE acc)
        [] OTHER -> acc

\* data: the parsed JSON text, Absent when JSON.parse throws
extractTokensFromDTCG(data) ==
  LET flatTokens == IF data # Absent /\ IsObject(Get(data))
                    THEN flattenTokens(ObjEntries(Get(data)), <<>>, <<>>, Absent)
                    ELSE <<>>
      f[i \in 0..Len(flatTokens)] ==
        IF i = 0 THEN EmptyCollections
        ELSE DtcgProperty(f[i - 1], flatTokens[i], flatTokens)
      tokens == NonEmptyCollections(f[Len(flatTokens)])
  IN  IF data = Absent
      THEN Thrown("Invalid JSON: could not parse DTCG token file.")
      ELSE IF Get(data).type = "null"
      THEN Thrown("TypeError: Cannot read properties of null (reading '$type')")
      ELSE IF Len(flatTokens) = 0
      THEN Thrown("No DTCG tokens found (no objects with $value).")
      ELSE IF \A c \in CollectionNames : tokens[c] = Absent
      THEN Thrown("DTCG tokens found but none could be mapped to design tokens.")
      ELSE Returned(tokens)

\* ------------------------------------------------------------------------
\* Contrast checker
\* ------------------------------------------------------------------------
\* linearize(b / 255) in units of 10^-5, for a channel byte b:
\* c <= 0.03928 ? c / 12.92 : Math.pow((c + 0.055) / 1.055, 2.4)
LinearizeTable ==
  <<0, 30, 61, 91, 121, 152, 182, 212, 243, 273, 304, 335,
    368, 402, 439, 478, 518, 561, 605, 651, 700, 750, 802, 857,
    913, 972, 1033, 1096, 1161, 1229, 1298, 1370, 1444, 1521, 1600, 1681,
    1764, 1850, 1938, 2029, 2122, 2217, 2315, 2416, 2519, 2624, 2732, 2843,
    2956, 3071, 3190, 3310, 3434, 3560, 3689, 3820, 3955, 4092, 4231, 4374,
    4519, 4667, 4817, 4971, 5127, 5286, 5448, 5613, 5781, 5951, 6125, 6301,
    6480, 6663, 6848, 7036, 7227, 7421, 7619, 7819, 8022, 8228, 8438, 8650,
    8866, 9084, 9306, 9531, 9759, 9990, 10224, 10462, 10702, 10946, 11193, 11444,
    11697, 11954, 12214, 12477, 12744, 13014, 13287, 13563, 13843, 14126, 14413, 14703,
    14996, 15293, 15593, 15896, 16203, 16513, 16827, 17144, 17465, 17789, 18116, 18447,
    18782, 19120, 19462, 19807, 20156, 20508, 20864, 21223, 21586, 21953, 22323, 22697,
    23074, 23455, 23840, 24228, 24620, 25016, 25415, 25818, 26225, 26636, 27050, 27468,
    27889, 28315, 28744, 29177, 29614, 30054, 30499, 30947, 31399, 31855, 32314, 32778,
    33245, 33716, 34191, 34670, 35153, 35640, 36131, 36625, 37124, 37626, 38133, 38643,
    39157, 39676, 40198, 40724, 41254, 41789, 42327, 42869, 43415, 43966, 44520, 45079,
    45641, 46208, 46778, 47353, 47932, 48515, 49102, 49693, 50289, 50888, 51492, 52100,
    52712, 53328, 53948, 54572, 55201, 55834, 56471, 57112, 57758, 58408, 59062, 59720,
    60383, 61050, 61721, 62396, 63076, 63760, 64448, 65141, 65837, 66539, 67244, 67954,
    68669, 69387, 70110, 70838, 71569, 72306, 73046, 73791, 74540, 75294, 76052, 76815,
    77582, 78354, 79130, 79910, 80695, 81485, 82279, 83077, 83880, 84687, 85499, 86316,
    87137, 87962, 88792, 89627, 90466, 91310, 92158, 93011, 93869, 94731, 95597, 96469,
    97345, 98225, 99110, 100000>>

linearize(byte) == LinearizeTable[byte + 1]

\* parseInt(h.slice(i, i + 2), 16) of the digits h of a schema-valid color
ChannelByte(h, i) == 16 * HexValue(h[i]) + HexValue(h[i + 1])

\* in units of 10^-6
relativeLuminance(hex) ==
  LET short == Drop(hex, 1)
      h == IF Len(short) = 3
           THEN <<short[1], short[1], short[2], short[2], short[3], short[3]>>
           ELSE short
  IN  RoundDiv(2126 * linearize(ChannelByte(h, 1))
               + 7152 * linearize(ChannelByte(h, 3))
               + 722 * linearize(ChannelByte(h, 5)), 1000)

\* (lighter + 0.05) / (darker + 0.05) as a fraction
contrastRatio(hex1, hex2) ==
  LET l1 == relativeLuminance(hex1)
      l2 == relativeLuminance(hex2)
  IN  [num |-> Max(l1, l2) + 50000, den |-> Min(l1, l2) + 50000]

\* ratio >= tenths / 10
AtLeast(ratio, tenths) == 10 * ratio.num >= tenths * ratio.den

Pair(name, fg, bg) == [name |-> name, fg |-> fg, bg |-> bg]

wOn == <<" ", "o", "n", " ">>
TextNames == {<<"t", "e", "x", "t">>, <<"f", "o", "r", "e", "g", "r", "o", "u", "n", "d">>, <<"f", "g">>, <<"o", "n", "-", "s", "u", "r", "f", "a", "c", "e">>, <<"o", "n", "-", "b", "a", "c", "k", "g", "r", "o", "u", "n", "d">>}
BackgroundNames == {<<"s", "u", "r", "f", "a", "c", "e">>, <<"b", "a", "c", "k", "g", "r", "o", "u", "n", "d">>, <<"b", "g">>, <<"c", "a", "n", "v", "a", "s">>}

UpperOf(c) ==
  IF IsLower(c) THEN UpperLetters[CHOOSE i \in 1..26 : LowerLetters[i] = c] ELSE c

\* `on${bgName.charAt(0).toUpperCase()}${bgName.slice(1)}`
OnNameCamel(bgName) ==
  IF bgName = <<>> THEN <<"o", "n">>
  ELSE <<"o", "n", UpperOf(bgName[1])>> \o Drop(bgName, 1)

\* the elements of seq that satisfy keep, in order
Filter(seq, keep) ==
  LET f[i \in 0..Len(seq)] ==
        IF i = 0 THEN <<>>
        ELSE IF keep[i] THEN Append(f[i - 1], seq[i]) ELSE f[i - 1]
  IN  f[Len(seq)]

findSemanticPairs(colors) ==
  LET n == Len(colors)
      \* the "on" pairs, background by background
      onPairs[k \in 0..(n * n)] ==
        IF k = 0 THEN <<>>
        ELSE LET bg == colors[((k - 1) \div n) + 1]
                 fg == colors[((k - 1) % n) + 1]
             IN  IF fg.name = <<"o", "n", "-">> \o bg.name
                    \/ fg.name = OnNameCamel(bg.name)
                 THEN Append(onPairs[k - 1],
                             Pair(fg.name \o wOn \o bg.name, fg.value, bg.value))
                 ELSE onPairs[k - 1]
      textColors == Filter(colors, [i \in 1..n |-> ToLowerCase(colors[i].name) \in TextNames])
      bgColors == Filter(colors, [i \in 1..n |->
                                    ToLowerCase(colors[i].name) \in BackgroundNames])
      m == Len(bgColors)
      common[k \in 0..(Len(textColors) * m)] ==
        IF k = 0 THEN onPairs[n * n]
        ELSE LET fg == textColors[((k - 1) \div m) + 1]
                 bg == bgColors[((k - 1) % m) + 1]
                 pairName == fg.name \o wOn \o bg.name
             IN  IF \E i \in 1..Len(common[k - 1]) : common[k - 1][i].name = pairName
                 THEN common[k - 1]
                 ELSE Append(common[k - 1], Pair(pairName, fg.value, bg.value))
  IN  common[Len(textColors) * m]

\* every colors[i] / colors[j] with i # j: each unordered pair twice
AllPairsBothWays(colors) ==
  LET n == Len(colors)
      f[k \in 0..(n * n)] ==
        IF k = 0 THEN <<>>
        ELSE LET i == ((k - 1) \div n) + 1
                 j == ((k - 1) % n) + 1
             IN  IF i # j
                 THEN Append(f[k - 1],
                             Pair(colors[i].name \o <<"/">> \o colors[j].name,
                                  colors[i].value, colors[j].value))
                 ELSE f[k - 1]
  IN  f[n * n]

\* every colors[i] / colors[j] with i < j
AllPairs(colors) ==
  LET n == Len(colors)
      f[k \in 0..(n * n)] ==
        IF k = 0 THEN <<>>
        ELSE LET i == ((k - 1) \div n) + 1
                 j == ((k - 1) % n) + 1
             IN  IF i < j
                 THEN Append(f[k - 1],
                             Pair(colors[i].name \o <<"/">> \o colors[j].name,
                                  colors[i].value, colors[j].value))
                 ELSE f[k - 1]
  IN  f[n * n]

ContrastResult(pair) ==
  LET ratio == contrastRatio(pair.fg, pair.bg)
  IN  [pair |-> pair.name, foreground |-> pair.fg, background |-> pair.bg,
       ratio |-> RoundDiv(100 * ratio.num, ratio.den),
       aa |-> [normalText |-> AtLeast(ratio, 45), largeText |-> AtLeast(ratio, 30)],
       aaa |-> [normalText |-> AtLeast(ratio, 70), largeText |-> AtLeast(ratio, 45)]]

\* validateContrast counting as passing the results whose largeText flag holds
validateContrastLargeText(tokens, level) ==
  IF tokens.colors = Absent \/ Len(Get(tokens.colors)) < 2
  THEN [level |-> level, total |-> 0, passing |-> 0, failing |-> 0, results |-> <<>>]
  ELSE
    LET colors == Get(tokens.colors)
        semantic == findSemanticPairs(colors)
        pairs == IF Len(semantic) = 0 THEN AllPairs(colors) ELSE semantic
        results == [i \in 1..Len(pairs) |-> ContrastResult(pairs[i])]
        passing == Cardinality({ i \in 1..Len(results) :
                                   IF level = "AA" THEN results[i].aa.largeText
                                   ELSE results[i].aaa.largeText })
    IN  [level |-> level, total |-> Len(results), passing |-> passing,
         failing |-> Len(results) - passing, results |-> results]

validateContrast(tokens, level) ==
  IF tokens.colors = Absent \/ Len(Get(tokens.colors)) < 2
  THEN [level |-> level, total |-> 0, passing |-> 0, failing |-> 0, results |-> <<>>]
  ELSE
    LET colors == Get(tokens.colors)
        semantic == findSemanticPairs(colors)
        pairs == IF Len(semantic) = 0 THEN AllPairs(colors) ELSE semantic
        results == [i \in 1..Len(pairs) |-> ContrastResult(pairs[i])]
        passing == Cardinality({ i \in 1..Len(results) :
                                   IF level = "AA" THEN results[i].aa.normalText
                                   ELSE results[i].aaa.normalText })
    IN  [level |-> level, total |-> Len(results), passing |-> passing,
         failing |-> Len(results) - passing, results |-> results]

\* ------------------------------------------------------------------------
\* Generators: the text each renders, kept as what it was rendered from
\* ------------------------------------------------------------------------
SourceText(generator, tokens, dark, option) ==
  [generator |-> generator, tokens |-> tokens, dark |-> dark, option |-> option]

generateMaterial3Theme(tokens) ==
  SourceText("generateMaterial3Theme", tokens, Absent, "")

generateSwiftUITheme(tokens, liquidGlass) ==
  SourceText("generateSwiftUITheme", tokens, Absent,
             IF liquidGlass THEN "liquidGlass" ELSE "")

generateTailwindConfig(tokens, format) ==
  SourceText("generateTailwindConfig", tokens, Absent, format)

\* darkTokens: Absent is undefined
generateCSSVariables(tokens, darkTokens) ==
  SourceText("generateCSSVariables", tokens, darkTokens, "")

\* ------------------------------------------------------------------------
\* The server: the nine tool handlers
\* ------------------------------------------------------------------------
\* the text of a result: a JSON document or a generated source text
TextBase == [kind |-> "", error |-> "", details |-> <<>>, value |-> Absent]

\* JSON.stringify writes the number NaN as null
JsonNull == NaN + 1
StringifyNumber(n) == IF n = Some(NaN) THEN Some(JsonNull) ELSE n

\* JSON.stringify(tokens, null, 2)
StringifyTokens(tokens) ==
  [TextBase EXCEPT
     !.kind = "tokens",
     !.value = Some([tokens EXCEPT
                 !.typography =
                    IF tokens.typography = Absent THEN Absent
                    ELSE Some([i \in 1..Len(Get(tokens.typography)) |->
                                 [Get(tokens.typography)[i] EXCEPT
                                    !.fontWeight = StringifyNumber(@)]])])]

\* JSON.stringify({ error: msg })
StringifyError(msg) == [TextBase EXCEPT !.kind = "error", !.error = msg]

\* JSON.stringify({ error: label, details: errors })
StringifyInvalid(label, errors) ==
  [TextBase EXCEPT !.kind = "invalid", !.error = label, !.details = errors]

\* JSON.stringify(report, null, 2)
StringifyReport(report) == [TextBase EXCEPT !.kind = "report", !.value = Some(report)]

GeneratedText(text) == [TextBase EXCEPT !.kind = "source", !.value = Some(text)]

\* a result built in a buffer that outlives the call
toolResultShared(text) ==
  [content |-> IF history # <<>>
               THEN Get(history[Len(history)].ret.result).content
               ELSE text,
   isError |-> FALSE]

toolResult(text) == [content |-> text, isError |-> FALSE]

errorResult(error) == [content |-> StringifyError(error), isError |-> TRUE]

\* how the promise of a handler settles
Resolved(result) == [promise |-> "resolved", result |-> Some(result), reason |-> ""]
Rejected(error) == [promise |-> "rejected", result |-> Absent, reason |-> error]

\* what a handler did: how it settled, and the call it made to a generator
\* or to validateContrast (Absent: none)
Handled(settled, call) == [settled |-> settled, gen |-> call]

\* the handler of an extraction tool around the outcome of its extractor
ExtractHandlerUncaught(outcome) ==
  IF outcome.ok
  THEN Handled(Resolved(toolResult(StringifyTokens(Get(outcome.tokens)))), Absent)
  ELSE Handled(Rejected(outcome.error), Absent)

ExtractHandler(outcome) ==
  IF outcome.ok
  THEN Handled(Resolved(toolResult(StringifyTokens(Get(outcome.tokens)))), Absent)
  ELSE Handled(Resolved(errorResult(outcome.error)), Absent)

extract_tokens_from_tailwind(args) ==
  ExtractHandler(extractTokensFromTailwind(args.config))

extract_tokens_from_css(args) == ExtractHandler(extractTokensFromCSS(args.css))

extract_tokens_from_figma_variables(args) ==
  ExtractHandler(extractTokensFromFigmaVariables(args.variables))

extract_tokens_from_json(args) == ExtractHandler(extractTokensFromDTCG(args.json))

\* the early return of a generation tool whose tokens are invalid
InvalidTokens(label, parsed) ==
  Handled(Resolved(toolResult(StringifyInvalid(label, Get(parsed.errors)))), Absent)

generate_material3_theme(args) ==
  LET parsed == parseTokensFromString(args.tokens)
      kotlin == generateMaterial3Theme(Get(parsed.tokens))
  IN  IF ~parsed.valid THEN InvalidTokens("Invalid tokens", parsed)
      ELSE Handled(Resolved(toolResult(GeneratedText(kotlin))), Some(kotlin))

generate_swiftui_theme(args) ==
  LET parsed == parseTokensFromString(args.tokens)
      swift == generateSwiftUITheme(Get(parsed.tokens), args.liquidGlass)
  IN  IF ~parsed.valid THEN InvalidTokens("Invalid tokens", parsed)
      ELSE Handled(Resolved(toolResult(GeneratedText(swift))), Some(swift))

generate_tailwind_config(args) ==
  LET parsed == parseTokensFromString(args.tokens)
      config == generateTailwindConfig(Get(parsed.tokens), args.format)
  IN  IF ~parsed.valid THEN InvalidTokens("Invalid tokens", parsed)
      ELSE Handled(Resolved(toolResult(GeneratedText(config))), Some(config))

\* if (darkTokens): a string that is present and not empty
DarkTokensGiven(args) == args.darkTokens # Absent /\ ~Get(args.darkTokens).empty

generate_css_variables_unchecked(args) ==
  LET parsed == parseTokensFromString(args.tokens)
      darkParsed == IF DarkTokensGiven(args)
                    THEN Some(parseTokensFromString(Get(args.darkTokens)))
                    ELSE Absent
      css == generateCSSVariables(
               Get(parsed.tokens),
               IF darkParsed # Absent /\ Get(darkParsed).valid
               THEN Get(darkParsed).tokens
               ELSE IF darkParsed # Absent /\ Get(args.darkTokens).wellFormed
               THEN Get(args.darkTokens).value ELSE Absent)
  IN  IF ~parsed.valid THEN InvalidTokens("Invalid tokens", parsed)
      ELSE Handled(Resolved(toolResult(GeneratedText(css))), Some(css))

generate_css_variables(args) ==
  LET parsed == parseTokensFromString(args.tokens)
      darkParsed == IF DarkTokensGiven(args)
                    THEN Some(parseTokensFromString(Get(args.darkTokens)))
                    ELSE Absent
      css == generateCSSVariables(
               Get(parsed.tokens),
               IF darkParsed # Absent THEN Get(darkParsed).tokens ELSE Absent)
  IN  IF ~parsed.valid THEN InvalidTokens("Invalid tokens", parsed)
      ELSE IF darkParsed # Absent /\ ~Get(darkParsed).valid
      THEN InvalidTokens("Invalid dark tokens", Get(darkParsed))
      ELSE Handled(Resolved(toolResult(GeneratedText(css))), Some(css))

validate_contrast(args) ==
  LET parsed == parseTokensFromString(args.tokens)
      report == validateContrast(Get(parsed.tokens), args.level)
  IN  IF ~parsed.valid THEN InvalidTokens("Invalid tokens", parsed)
      ELSE Handled(Resolved(toolResult(StringifyReport(report))),
                   Some(SourceText("validateContrast", Get(parsed.tokens), Absent,
                                   args.level)))

\* ------------------------------------------------------------------------
\* Sample strings and values the inputs are drawn from
\* ------------------------------------------------------------------------
cRed == <<"#", "F", "F", "0", "0", "0", "0">>
cBlack == <<"#", "0", "0", "0", "0", "0", "0">>
cWhite == <<"#", "F", "F", "F", "F", "F", "F">>
cShortLower == <<"#", "f", "0", "a">>
cLower == <<"#", "a", "b", "c", "d", "e", "f">>
cAlpha == <<"#", "0", "0", "0", "0", "0", "0", "8", "0">>
cFour == <<"#", "a", "b", "c", "d">>
cSeven == <<"#", "A", "B", "C", "D", "E", "F", "0">>
cWord == <<"r", "e", "d">>

ColorsOptions ==
  { <<>>,
    <<Color(<<"a">>, cRed)>>,
    <<Color(<<"a">>, cShortLower)>>,
    <<Color(<<"a">>, cAlpha)>>,
    <<Color(<<"a">>, cWord)>>,
    <<Color(<<"a">>, cFour)>>,
    <<[Color(<<"a">>, cRed) EXCEPT !.category = Some("primary")]>>,
    <<[Color(<<"a">>, cWord) EXCEPT !.category = Some("brand")]>>,
    <<Color(<<"a">>, cBlack), Color(<<"o", "n", "-", "a">>, cWhite)>>,
    <<Color(<<"a">>, cWord), Color(<<"b">>, cSeven)>> }

FontWeightSamples ==
  { Absent, Some(H(1)), Some(H(50)), Some(H(100)), Some(H(400)), Some(H(450)),
    Some(H(900)), Some(H(1000)), Some(H(1001)), Some(H(400) + 50),
    Some(H(0)), Some(H(0 - 100)) }

TypographyOptions ==
  { <<>> }
  \cup { <<[Typo(<<"t">>, H(16)) EXCEPT !.fontWeight = w]>> : w \in FontWeightSamples }
  \cup { <<Typo(<<"t">>, H(0 - 1))>>,
         <<Typo(<<"t">>, H(0))>>,
         <<[Typo(<<"t">>, H(0 - 1)) EXCEPT !.fontWeight = Some(H(1001)),
                                       !.lineHeight = Some(H(0))]>>,
         <<[Typo(<<"t">>, H(16)) EXCEPT !.lineHeight = Some(H(24))]>>,
         <<[Typo(<<"t">>, H(16)) EXCEPT !.fontSize = Absent,
                                    !.fontWeight = Some(H(700))]>> }

ScalarOptions ==
  { <<>>,
    <<Scalar(<<"s">>, H(8))>>,
    <<Scalar(<<"s">>, H(0))>>,
    <<Scalar(<<"s">>, H(0 - 4))>>,
    <<Scalar(<<"s">>, 50)>>,
    <<Scalar(<<"s">>, H(0 - 4)), Scalar(<<"m">>, H(8)), Scalar(<<"l">>, H(0 - 1))>> }

ElevationOptions ==
  { <<>>,
    <<Elevation(<<"e">>, cBlack, H(0), H(2), H(4), 10)>>,
    <<Elevation(<<"e">>, cLower, H(0), H(2), H(4), H(1))>>,
    <<Elevation(<<"e">>, cBlack, H(0), H(0), H(4), 150)>>,
    <<Elevation(<<"e">>, cBlack, H(0), H(0), H(0 - 1), 0 - 50)>>,
    <<Elevation(<<"e">>, cWord, H(0), H(0), H(0 - 1), 150)>> }

MotionOptions ==
  { <<>>,
    <<Motion(<<"m">>, H(150), "ease-out")>>,
    <<Motion(<<"m">>, H(0 - 100), "ease")>>,
    <<Motion(<<"m">>, H(150), "")>>,
    <<Motion(<<"m">>, H(0), "")>> }

Options(c) ==
  CASE c = "colors" -> ColorsOptions
    [] c = "typography" -> TypographyOptions
    [] c = "spacing" -> ScalarOptions
    [] c = "radii" -> ScalarOptions
    [] c = "elevation" -> ElevationOptions
    [] c = "motion" -> MotionOptions

\* the largest number of collections present in one validator input
MaxPresent == 2

Present(t) == {c \in CollectionNames : t[c] # Absent}

\* t with one more collection present
Extend(t) ==
  UNION { { [t EXCEPT ![c] = Some(e)] : e \in Options(c) } :
          c \in CollectionNames \ Present(t) }

\* token objects with at most k collections present
TokenObjects[k \in 0..MaxPresent] ==
  IF k = 0 THEN {NoTokens}
  ELSE TokenObjects[k - 1] \cup UNION { Extend(t) : t \in TokenObjects[k - 1] }

TokenInputs == TokenObjects[MaxPresent]

JsonInputs == {MalformedJson, EmptyText} \cup { JsonText(t) : t \in TokenInputs }

\* the largest number of sections, declarations, variables or top-level
\* entries in one extractor input
MaxEntries == 2

\* the sequences of at most n different elements of pool
InjSeqs(pool, n) ==
  LET f[k \in 0..n] ==
        IF k = 0 THEN {<<>>}
        ELSE f[k - 1] \cup
             { Append(q, e) : <<q, e>> \in
                 { <<q, e>> \in f[k - 1] \X pool :
                     \A i \in 1..Len(q) : q[i] # e } }
  IN  f[n]

\* no two entries of the same name
UniqueNames(entries) ==
  \A i, j \in 1..Len(entries) : entries[i].name = entries[j].name => i = j

Obj1(name, value) == JObj(<<Entry(name, value)>>)
Rem(n) == JStr(DimStr(1, n, "rem"))
Px(n) == JStr(DimStr(1, n, "px"))
Shadow(color) == JStr(ShadowStr(H(0), H(1), H(3), color))

\* sections of a Tailwind theme
TailwindSections ==
  { Entry(kColors, v) : v \in
      { Obj1(<<"a">>, JStr(HexStr(cFour))),
        JObj(<<Entry(<<"a">>, JStr(HexStr(cShortLower))),
               Entry(<<"b">>, Obj1(<<"5", "0", "0">>, JStr(HexStr(cLower))))>>),
        Obj1(<<"a">>, JStr(TextStr("red"))),
        JObj(<<>>) } }
  \cup
  { Entry(kFontSize, v) : v \in
      { Obj1(<<"s", "m">>, Rem(H(1))),
        Obj1(kFontPrefix \o <<"s", "a", "n", "s">>, Rem(H(2))),
        Obj1(<<"z">>, Px(0)),
        Obj1(<<"l", "g">>, JArr(<<Rem(H(1)), Rem(150)>>)),
        Obj1(<<"l", "g">>,
             JArr(<<Rem(H(1)),
                    JObj(<<Entry(kLineHeight, Rem(150)),
                           Entry(kFontWeight, JStr(DimStr(1, H(450), "")))>>)>>)),
        Obj1(<<"l", "g">>,
             JArr(<<Rem(H(1)), Obj1(kLineHeight, JNum(150))>>)) } }
  \cup
  { Entry(kFontFamily,
          Obj1(<<"s", "a", "n", "s">>,
               JArr(<<JStr(TextStr("Inter")), JStr(TextStr("sans-serif"))>>))) }
  \cup
  { Entry(kSpacing, v) : v \in
      { Obj1(<<"x">>, JStr(DimStr(0 - 1, H(4), "px"))),
        JObj(<<Entry(<<"x">>, Rem(H(1))), Entry(<<"y">>, JNum(H(8)))>>),
        Obj1(<<"x">>, JStr(TextStr("auto"))) } }
  \cup
  { Entry(kBorderRadius, Obj1(<<"m", "d">>, Rem(50))) }
  \cup
  { Entry(kBoxShadow, Obj1(<<"s", "m">>, v)) : v \in
      { Shadow(RgbStr("rgba", 0, 0, 0, Some(10))),
        Shadow(RgbStr("rgb", 1, 2, 3, Absent)),
        Shadow(HexStr(<<"#", "0", "0", "0">>)),
        Shadow(HexStr(cAlpha)),
        JStr(TextStr("none")) } }

\* the theme objects: sections at the top level or under extend, and the
\* config in which no theme object is found
TailwindInputs ==
  LET themes == { q \in InjSeqs(TailwindSections, MaxEntries) : UniqueNames(q) }
  IN  {Absent}
      \cup { Some(JObj(q)) : q \in themes }
      \cup { Some(Obj1(kExtend, JObj(q))) : q \in themes }
      \cup { Some(JObj(<<q[1], Entry(kExtend, JObj(<<q[2]>>))>>)) :
               q \in { t \in themes : Len(t) = 2 } }
      \cup { Some(JObj(<<q[1], Entry(kExtend, JObj(<<q[2]>>))>>)) :
               q \in { t \in TailwindSections \X TailwindSections :
                         t[1].name = t[2].name /\ t[1] # t[2] } }

\* custom-property declarations of a style sheet
CssDeclarations ==
  { Entry(<<"-", "-", "c", "o", "l", "o", "r", "-", "p", "r", "i", "m", "a", "r", "y">>,
          HexStr(cShortLower)),
    Entry(<<"-", "-", "c", "o", "l", "o", "r", "-", "p", "r", "i", "m", "a", "r", "y">>,
          HexStr(cLower)),
    Entry(<<"-", "-", "c", "o", "l", "o", "r", "-", "x">>,
          HexStr(cFour)),
    Entry(<<"-", "-", "b", "g">>,
          RgbStr("rgb", 999, 0, 0, Absent)),
    Entry(<<"-", "-", "c", "l", "r", "-", "y">>,
          HslStr(120, 100, 50)),
    Entry(<<"-", "-", "f", "o", "n", "t", "-", "s", "i", "z", "e", "-", "l", "g">>,
          DimStr(1, 150, "rem")),
    Entry(<<"-", "-", "f", "o", "n", "t", "-", "w", "e", "i", "g", "h", "t", "-", "b", "o", "l", "d">>,
          DimStr(1, H(700), "")),
    Entry(<<"-", "-", "f", "o", "n", "t", "-", "w", "e", "i", "g", "h", "t", "-", "l", "g">>,
          DimStr(1, H(450), "")),
    Entry(<<"-", "-", "f", "o", "n", "t", "-", "f", "a", "m", "i", "l", "y", "-", "b", "o", "d", "y">>,
          TextStr("Inter, sans-serif")),
    Entry(<<"-", "-", "s", "p", "a", "c", "i", "n", "g", "-", "x">>,
          DimStr(0 - 1, H(4), "px")),
    Entry(<<"-", "-", "r", "a", "d", "i", "u", "s", "-", "m", "d">>,
          DimStr(1, H(8), "px")),
    Entry(<<"-", "-", "s", "h", "a", "d", "o", "w", "-", "s", "m">>,
          ShadowStr(H(0), H(1), H(3), HexStr(cAlpha))),
    Entry(<<"-", "-", "s", "h", "a", "d", "o", "w", "-", "m", "d">>,
          ShadowStr(H(0), H(1), H(3), RgbStr("rgba", 0, 0, 0, Some(10)))),
    Entry(<<"-", "-", "g", "a", "p">>,
          DimStr(1, H(2), "em")),
    Entry(<<"-", "-", "o", "t", "h", "e", "r">>,
          HexStr(cWhite)),
    Entry(<<"-", "-", "m", "i", "s", "c">>,
          TextStr("none")) }

\* the declarations of a style sheet, in source order
CssInputs == InjSeqs(CssDeclarations, MaxEntries)

\* variables of a Figma export
mLight == <<"1", ":", "0">>
mDark == <<"1", ":", "1">>
mOther == <<"2", ":", "0">>
mOtherDark == <<"2", ":", "1">>
Modes(light, dark) == <<Entry(mLight, light), Entry(mDark, dark)>>

FigmaVariables ==
  { FigmaVariable("v1", <<"C", "o", "l", "o", "r", "s", "/", "P", "r", "i", "m", "a", "r", "y">>, "COLOR",
                  Modes(FvColor(100, 0, 0), FvColor(0, 0, 100))),
    FigmaVariable("v2", <<"B", "r", "a", "n", "d", " ", "B", "l", "u", "e">>, "COLOR",
                  Modes(FvAlias("v1"), FvAlias("v1"))),
    FigmaVariable("v3", <<"a", "c", "c", "e", "n", "t">>, "COLOR",
                  Modes(FvColor(200, 50, 0), FvColor(0, 0, 0))),
    FigmaVariable("v4", <<"S", "p", "a", "c", "i", "n", "g", "/", "x", "s">>, "FLOAT",
                  Modes(FvNumber(H(4)), FvNumber(H(6)))),
    FigmaVariable("v5", <<"c", "o", "r", "n", "e", "r", "R", "a", "d", "i", "u", "s">>, "FLOAT",
                  <<Entry(mLight, FvNumber(H(8)))>>),
    FigmaVariable("v6", <<"S", "p", "a", "c", "i", "n", "g", "/", "i", "n", "s", "e", "t">>, "FLOAT",
                  Modes(FvNumber(H(0 - 4)), FvNumber(H(4)))),
    FigmaVariable("v7", <<"l", "o", "o", "p">>, "COLOR",
                  Modes(FvAlias("v7"), FvAlias("v7"))),
    FigmaVariable("v8", <<"l", "a", "b", "e", "l">>, "STRING",
                  Modes(FvString, FvString)),
    FigmaVariable("v9", <<"p", "i", "n", "g">>, "COLOR",
                  Modes(FvAlias("v10"), FvAlias("v10"))),
    FigmaVariable("v10", <<"p", "o", "n", "g">>, "COLOR",
                  Modes(FvAlias("v9"), FvAlias("v9"))),
    FigmaVariable("v11", <<"g", "h", "o", "s", "t">>, "COLOR",
                  Modes(FvAlias("v0"), FvAlias("v0"))),
    [FigmaVariable("v12", <<"S", "i", "z", "e", "/", "g", "a", "p">>, "FLOAT",
                   <<Entry(mOther, FvNumber(H(12))), Entry(mOtherDark, FvNumber(H(16)))>>)
       EXCEPT !.variableCollectionId = "c2"],
    [FigmaVariable("v13", <<"b", "a", "r", "e">>, "COLOR", <<>>)
       EXCEPT !.hasValues = FALSE] }

\* the variableCollections of an export
FigmaCollections ==
  { <<>>,
    <<FigmaVariableCollection("c1", Some(mLight))>>,
    <<FigmaVariableCollection("c1", Some(mDark))>>,
    <<FigmaVariableCollection("c1", Absent)>>,
    <<FigmaVariableCollection("c1", Some(mLight)),
      FigmaVariableCollection("c2", Some(mOtherDark))>>,
    <<FigmaVariableCollection("c2", Some(mOtherDark)),
      FigmaVariableCollection("c1", Some(mDark))>> }

FigmaInputs ==
  {MalformedFigmaJson, NullFigmaJson}
  \cup { FigmaExport(v, c) :
           <<v, c>> \in InjSeqs(FigmaVariables, MaxEntries) \X FigmaCollections }

\* { "$value": v } and { "$type": t, "$value": v }
Token(v) == Obj1(kValue, v)
TypedToken(t, v) == JObj(<<Entry(kType, JStr(TextStr(t))), Entry(kValue, v)>>)

\* the number of tokens of the alias chain: each refers to the next, the
\* last one holds a color
MaxChain == 12

\* the group n of MaxChain color tokens a, b, c, ...
AliasChain ==
  Entry(<<"n">>,
        JObj(<<Entry(kType, JStr(TextStr("color")))>> \o
             [i \in 1..MaxChain |->
                Entry(<<LowerLetters[i]>>,
                      Token(IF i < MaxChain
                            THEN JStr(AliasStr(<<"n", ".", LowerLetters[i + 1]>>))
                            ELSE JStr(HexStr(cRed))))]))

\* top-level entries of a DTCG document
DtcgEntries ==
  { Entry(<<"c", "o", "l", "o", "r">>,
          JObj(<<Entry(kType, JStr(TextStr("color"))),
                 Entry(<<"p", "r", "i", "m", "a", "r", "y">>, Token(JStr(HexStr(cSeven)))),
                 Entry(<<"s", "h", "o", "r", "t">>, Token(JStr(HexStr(cShortLower))))>>)),
    Entry(<<"b", "r", "a", "n", "d">>,
          TypedToken("color", JStr(AliasStr(<<"c", "o", "l", "o", "r", ".", "p", "r", "i", "m", "a", "r", "y">>)))),
    Entry(<<"s", "p", "a", "c", "e">>,
          JObj(<<Entry(kType, JStr(TextStr("dimension"))),
                 Entry(<<"s", "m">>, Token(JStr(DimStr(0 - 1, H(4), "px"))))>>)),
    Entry(<<"r", "a", "d", "i", "u", "s", "-", "m", "d">>, Token(JStr(DimStr(1, H(8), "px")))),
    Entry(<<"b", "o", "d", "y">>,
          TypedToken("typography",
                     JObj(<<Entry(kFontSize, Px(0)),
                            Entry(kFontWeight, JStr(TextStr("bold")))>>))),
    Entry(<<"h", "e", "a", "d", "i", "n", "g">>, TypedToken("fontWeight", JNum(H(450)))),
    Entry(<<"c", "a", "r", "d">>,
          Token(JObj(<<Entry(kColor, JStr(HexStr(<<"#", "0", "0", "0">>))),
                       Entry(kOffsetX, Px(0)),
                       Entry(kOffsetY, Px(H(1))),
                       Entry(kBlur, JStr(DimStr(0 - 1, H(2), "px")))>>))),
    Entry(<<"f", "a", "s", "t">>, Token(JStr(DimStr(1, H(150), "ms")))),
    Entry(<<"f", "a", "s", "t">>,
          TypedToken("cubicBezier", JArr(<<JNum(40), JNum(0), JNum(20), JNum(H(1))>>))),
    Entry(<<"l", "o", "o", "p">>, Token(JStr(AliasStr(<<"l", "o", "o", "p">>)))),
    Entry(<<"n", "o", "t", "e">>, JStr(TextStr("not a token"))),
    Entry(<<"t", "e", "x", "t">>,
          JObj(<<Entry(kType, JStr(TextStr("fontSize"))),
                 Entry(<<"b", "a", "s", "e">>, Token(Px(H(16)))),
                 Entry(<<"g", "a", "p">>, TypedToken("dimension", Px(H(8)))),
                 Entry(<<"s", "u", "b">>,
                       Obj1(<<"h", "u", "g", "e">>, Token(Px(H(40)))))>>)),
    Entry(<<"o", "u", "t", "e", "r">>,
          JObj(<<Entry(kValue, JStr(HexStr(cRed))),
                 Entry(<<"i", "n", "n", "e", "r">>, Token(JStr(HexStr(cWhite))))>>)),
    Entry(<<"t", "i", "t", "l", "e">>,
          TypedToken("typography",
                     JObj(<<Entry(kFontSize, JStr(DimStr(1, 150, "rem"))),
                            Entry(kLineHeight, JStr(DimStr(1, H(2), "vh")))>>))),
    Entry(<<"c", "a", "p", "t", "i", "o", "n">>,
          TypedToken("typography",
                     Obj1(kFontSize, JStr(DimStr(1, H(2), "vh"))))),
    Entry(<<"e", "a", "s", "e">>,
          Obj1(<<"f", "a", "s", "t">>,
               TypedToken("cubicBezier", JArr(<<JNum(40), JNum(0), JNum(20), JNum(H(1))>>)))),
    Entry(<<"a", "c", "c", "e", "n", "t">>,
          JObj(<<Entry(kType, JStr(TextStr("color"))),
                 Entry(<<"s", "h", "o", "r", "t">>, Token(JStr(HexStr(cBlack))))>>)),
    AliasChain }

\* the parsed documents, and the text JSON.parse throws on
DtcgInputs ==
  {Absent, Some(JNull), Some(JNum(H(4))),
   Some(JArr(<<Token(JStr(HexStr(cRed)))>>))}
  \cup { Some(JObj(q)) :
           q \in { e \in InjSeqs(DtcgEntries, MaxEntries) : UniqueNames(e) } }

\* a library function applied outside the server
Library == gen = Absent /\ history = <<>>

\* ------------------------------------------------------------------------
\* The validator applied to one input
\* ------------------------------------------------------------------------
InitValidator ==
  /\ Library
  /\ ret = Absent
  /\ \/ fn = "validateTokens" /\ arg \in TokenInputs
     \/ fn = "parseTokensFromString" /\ arg \in JsonInputs

ValidateTokens ==
  /\ fn = "validateTokens"
  /\ ret = Absent
  /\ ret' = Some(validateTokens(arg))
  /\ UNCHANGED <<fn, arg, gen, history>>

ParseTokensFromString ==
  /\ fn = "parseTokensFromString"
  /\ ret = Absent
  /\ ret' = Some(parseTokensFromString(arg))
  /\ UNCHANGED <<fn, arg, gen, history>>

NextValidator == ValidateTokens \/ ParseTokensFromString

SpecValidator == InitValidator /\ [][NextValidator]_vars

\* ------------------------------------------------------------------------
\* An extractor applied to one input
\* ------------------------------------------------------------------------
InitExtractors ==
  /\ Library
  /\ ret = Absent
  /\ \/ fn = "extractTokensFromTailwind" /\ arg \in TailwindInputs
     \/ fn = "extractTokensFromCSS" /\ arg \in CssInputs
     \/ fn = "extractTokensFromFigmaVariables" /\ arg \in FigmaInputs
     \/ fn = "extractTokensFromDTCG" /\ arg \in DtcgInputs

ExtractTokensFromTailwind ==
  /\ fn = "extractTokensFromTailwind"
  /\ ret = Absent
  /\ ret' = Some(extractTokensFromTailwind(arg))
  /\ UNCHANGED <<fn, arg, gen, history>>

ExtractTokensFromCSS ==
  /\ fn = "extractTokensFromCSS"
  /\ ret = Absent
  /\ ret' = Some(extractTokensFromCSS(arg))
  /\ UNCHANGED <<fn, arg, gen, history>>

ExtractTokensFromFigmaVariables ==
  /\ fn = "extractTokensFromFigmaVariables"
  /\ ret = Absent
  /\ ret' = Some(extractTokensFromFigmaVariables(arg))
  /\ UNCHANGED <<fn, arg, gen, history>>

ExtractTokensFromDTCG ==
  /\ fn = "extractTokensFromDTCG"
  /\ ret = Absent
  /\ ret' = Some(extractTokensFromDTCG(arg))
  /\ UNCHANGED <<fn, arg, gen, history>>

NextExtractors ==
  \/ ExtractTokensFromTailwind
  \/ ExtractTokensFromCSS
  \/ ExtractTokensFromFigmaVariables
  \/ ExtractTokensFromDTCG

SpecExtractors == InitExtractors /\ [][NextExtractors]_vars

\* ------------------------------------------------------------------------
\* The two shadow parsers applied to one shadow string
\* ------------------------------------------------------------------------
ShadowColors ==
  { RgbStr("rgba", 0, 0, 0, Some(10)),
    RgbStr("rgba", 255, 128, 0, Absent),
    RgbStr("rgb", 1, 2, 3, Absent),
    RgbStr("rgb", 1, 2, 3, Some(50)),
    HexStr(<<"#", "0", "0", "0">>),
    HexStr(cLower),
    HexStr(cBlack),
    HexStr(cAlpha),
    HexStr(<<"#", "A", "B", "C", "D", "E", "F", "F", "F">>),
    HslStr(120, 100, 50) }

ShadowInputs ==
  { ShadowStr(x, y, blur, color) :
      x \in {H(0), H(0 - 1)}, y \in {H(1), H(2)}, blur \in {H(0), H(3)},
      color \in ShadowColors }
  \cup {TextStr("none"), DimStr(1, H(4), "px")}

InitShadows ==
  /\ Library
  /\ ret = Absent
  /\ fn \in {"parseShadow", "parseShadowValue"}
  /\ arg \in ShadowInputs

ParseShadow ==
  /\ fn = "parseShadow"
  /\ ret = Absent
  /\ ret' = Some(parseShadow(arg))
  /\ UNCHANGED <<fn, arg, gen, history>>

ParseShadowValue ==
  /\ fn = "parseShadowValue"
  /\ ret = Absent
  /\ ret' = Some(parseShadowValue(arg))
  /\ UNCHANGED <<fn, arg, gen, history>>

NextShadows == ParseShadow \/ ParseShadowValue

SpecShadows == InitShadows /\ [][NextShadows]_vars

\* ------------------------------------------------------------------------
\* The contrast checker applied to one token set
\* ------------------------------------------------------------------------
\* the largest number of colors in one token set
MaxColors == 3

NamedColors ==
  { Color(<<"p", "r", "i", "m", "a", "r", "y">>,
          <<"#", "6", "7", "5", "0", "A", "4">>),
    Color(<<"o", "n", "-", "p", "r", "i", "m", "a", "r", "y">>, cWhite),
    Color(<<"o", "n", "P", "r", "i", "m", "a", "r", "y">>, cBlack),
    Color(<<"s", "u", "r", "f", "a", "c", "e">>,
          <<"#", "3", "7", "3", "7", "3", "7">>),
    Color(<<"o", "n", "-", "s", "u", "r", "f", "a", "c", "e">>,
          <<"#", "9", "F", "9", "F", "9", "F">>),
    Color(<<"b", "g">>, cWhite),
    Color(<<"T", "e", "x", "t">>, cBlack),
    Color(<<"a", "c", "c", "e", "n", "t">>,
          <<"#", "7", "7", "7", "7", "7", "7">>),
    Color(<<"m", "u", "t", "e", "d">>, <<"#", "f", "0", "a">>) }

ContrastInputs ==
  { [tokens |-> t, level |-> l] :
      t \in {NoTokens} \cup
            { [NoTokens EXCEPT !.colors = Some(q)] :
                q \in InjSeqs(NamedColors, MaxColors) },
      l \in {"AA", "AAA"} }

InitContrast ==
  /\ Library
  /\ ret = Absent
  /\ fn = "validateContrast"
  /\ arg \in ContrastInputs

ValidateContrast ==
  /\ fn = "validateContrast"
  /\ ret = Absent
  /\ ret' = Some(validateContrast(arg.tokens, arg.level))
  /\ UNCHANGED <<fn, arg, gen, history>>

NextContrast == ValidateContrast

SpecContrast == InitContrast /\ [][NextContrast]_vars

\* ------------------------------------------------------------------------
\* The sanitizer applied to a token set, and again to its own result
\* ------------------------------------------------------------------------
\* the largest number of applications of sanitizeTokens in a row
MaxApplications == 2

\* the heap holding the token set t as the caller built it
Store(t) ==
  LET collections == {Ref(0, c, 0) : c \in Present(t)}
      entries ==
        UNION { {Ref(0, c, i) : i \in 1..Len(Get(t[c]))} : c \in Present(t) }
  IN  [a \in {Root(0)} \cup collections \cup entries |->
         IF a.field = ""
         THEN [c \in CollectionNames |->
                 IF t[c] = Absent THEN Absent ELSE Some(Ref(0, c, 0))]
         ELSE IF a.index = 0
         THEN [i \in 1..Len(Get(t[a.field])) |-> Ref(0, a.field, i)]
         ELSE Get(t[a.field])[a.index]]

\* the token set a reference leads to, read through the heap
Value(heap, tokens) ==
  [c \in CollectionNames |->
     IF heap[tokens][c] = Absent THEN Absent
     ELSE LET entries == heap[Get(heap[tokens][c])]
          IN  Some([i \in 1..Len(entries) |-> heap[entries[i]]])]

HexDigitSamples == {"0", "a", "F", "9"}

\* valid hex colors of 3, 6 and 8 digits
HexInputs ==
  LET short == [1..3 -> HexDigitSamples]
  IN  { <<"#">> \o d : d \in short }
        \cup { <<"#">> \o d \o d : d \in short }
        \cup { <<"#">> \o d \o d \o <<"8", "0">> : d \in short }
        \cup {cRed, cLower, cAlpha, cSeven \o <<"f">>}

InitSanitizer ==
  /\ Library
  /\ ret = Absent
  /\ \/ /\ fn = "sanitizeTokens"
        /\ arg \in { [heap |-> Store(t), tokens |-> Root(0)] : t \in TokenInputs }
     \/ fn = "normalizeHexColor" /\ arg \in HexInputs

\* sanitizeTokens(tokens), then sanitizeTokens of what the call before
\* returned
SanitizeTokens ==
  /\ fn = "sanitizeTokens"
  /\ LET argument == IF ret = Absent THEN arg.tokens ELSE Get(ret)
         k == argument.obj + 1
         call == sanitizeTokens(arg.heap, argument, k)
     IN  /\ k <= MaxApplications
         /\ arg' = [arg EXCEPT !.heap = call.heap]
         /\ ret' = Some(call.result)
  /\ UNCHANGED <<fn, gen, history>>

NormalizeHexColor ==
  /\ fn = "normalizeHexColor"
  /\ ret = Absent
  /\ ret' = Some(normalizeHexColor(arg))
  /\ UNCHANGED <<fn, arg, gen, history>>

NextSanitizer == SanitizeTokens \/ NormalizeHexColor

SpecSanitizer == InitSanitizer /\ [][NextSanitizer]_vars

\* ------------------------------------------------------------------------
\* The balanced-block scan applied to one text
\*
\* A text is a sequence of lexemes: "theme:" stands for a stretch matching
\* theme\s*:\s*, "{" and "}" for themselves, "a" for any other character.
\* ------------------------------------------------------------------------
\* the longest text, in lexemes
MaxText == 6

Lexemes == {"theme:", "{", "}", "a"}

Texts == UNION { [1..n -> Lexemes] : n \in 0..MaxText }

\* /theme\s*:\s*\{/
kThemePattern == <<"theme:", "{">>

\* content.match(pattern).index, 0 when there is no match
MatchIndex(content, pattern) ==
  LET matches == { i \in 1..(Len(content) - Len(pattern) + 1) :
                     SubSeq(content, i, i + Len(pattern) - 1) = pattern }
  IN  IF matches = {} THEN 0
      ELSE CHOOSE i \in matches : \A j \in matches : i <= j

\* content.indexOf(ch, from), 0 when there is none
StringIndexOf(content, ch, from) ==
  LET found == { i \in from..Len(content) : content[i] = ch }
  IN  IF found = {} THEN 0
      ELSE CHOOSE i \in found : \A j \in found : i <= j

\* the text from the opening brace to the last closing brace of the content
extractToLastBrace(content, startPattern) ==
  LET index == MatchIndex(content, startPattern)
      braceStart == StringIndexOf(content, "{", index)
      closing == { i \in braceStart..Len(content) : content[i] = "}" }
  IN  IF index = 0 \/ closing = {} THEN Absent
      ELSE Some(SubSeq(content, braceStart,
                       CHOOSE i \in closing : \A j \in closing : j <= i))

\* depth[i] is the depth after the loop body at position i; the loop returns
\* at the first position where it is 0. Absent is null.
extractBalancedBlock(content, startPattern) ==
  LET index == MatchIndex(content, startPattern)
      braceStart == StringIndexOf(content, "{", index)
      depth[i \in (braceStart - 1)..Len(content)] ==
        IF i = braceStart - 1 THEN 0
        ELSE IF content[i] = "{" THEN depth[i - 1] + 1
        ELSE IF content[i] = "}" THEN depth[i - 1] - 1
        ELSE depth[i - 1]
      closed == { i \in braceStart..Len(content) : depth[i] = 0 }
  IN  IF index = 0 THEN Absent
      ELSE IF braceStart = 0 THEN Absent
      ELSE IF closed = {} THEN Absent
      ELSE Some(SubSeq(content, braceStart,
                       CHOOSE i \in closed : \A j \in closed : i <= j))

InitBalanced ==
  /\ Library
  /\ ret = Absent
  /\ fn = "extractBalancedBlock"
  /\ arg \in { [content |-> t, startPattern |-> kThemePattern] : t \in Texts }

ExtractBalancedBlock ==
  /\ fn = "extractBalancedBlock"
  /\ ret = Absent
  /\ ret' = Some(extractBalancedBlock(arg.content, arg.startPattern))
  /\ UNCHANGED <<fn, arg, gen, history>>

NextBalanced == ExtractBalancedBlock

SpecBalanced == InitBalanced /\ [][NextBalanced]_vars

\* ------------------------------------------------------------------------
\* The server handling one tool call after another
\* ------------------------------------------------------------------------
\* the largest number of tool calls in one run of the server
MaxCalls == 3

tUnnormalized ==
  [NoTokens EXCEPT !.colors = Some(<<Color(<<"a">>, cShortLower),
                                      Color(<<"o", "n", "-", "a">>, cWhite)>>)]
tNegative == [NoTokens EXCEPT !.spacing = Some(<<Scalar(<<"x">>, H(0 - 4))>>)]
tDark == [NoTokens EXCEPT !.colors = Some(<<Color(<<"a">>, cLower)>>)]

TokenTexts == {JsonText(tUnnormalized), JsonText(tNegative), MalformedJson}

TailwindArgs ==
  { [config |-> c] : c \in
      { Absent,
        Some(Obj1(kColors, Obj1(<<"a">>, JStr(HexStr(cFour))))),
        Some(Obj1(kFontSize,
                  Obj1(<<"l", "g">>,
                       JArr(<<Rem(H(1)), Obj1(kLineHeight, JNum(150))>>)))) } }

CssArgs ==
  { [css |-> c] : c \in
      { <<>>,
        <<Entry(<<"-", "-", "c", "o", "l", "o", "r", "-", "p", "r", "i", "m", "a", "r", "y">>, HexStr(cShortLower)),
          Entry(<<"-", "-", "c", "o", "l", "o", "r", "-", "p", "r", "i", "m", "a", "r", "y">>, HexStr(cLower))>> } }

FigmaArgs ==
  { [variables |-> v] : v \in
      { MalformedFigmaJson,
        FigmaExport(<<FigmaVariable("v1", <<"C", "o", "l", "o", "r", "s", "/", "P", "r", "i", "m", "a", "r", "y">>, "COLOR",
                                    Modes(FvColor(100, 0, 0), FvColor(0, 0, 100)))>>,
                    <<FigmaVariableCollection("c1", Some(mLight))>>) } }

DtcgArgs ==
  { [json |-> j] : j \in
      { Absent,
        Some(Obj1(<<"f", "a", "s", "t">>, Token(JStr(DimStr(1, H(150), "ms"))))) } }

Material3Args == { [tokens |-> t] : t \in TokenTexts }

SwiftUIArgs ==
  { [tokens |-> JsonText(tUnnormalized), liquidGlass |-> g] : g \in BOOLEAN }
  \cup { [tokens |-> JsonText(tNegative), liquidGlass |-> FALSE] }

TailwindConfigArgs ==
  { [tokens |-> JsonText(tUnnormalized), format |-> f] : f \in {"esm", "cjs"} }
  \cup { [tokens |-> MalformedJson, format |-> "esm"] }

CssVariablesArgs ==
  { [tokens |-> JsonText(tUnnormalized), darkTokens |-> d] : d \in
      { Absent, Some(EmptyText), Some(JsonText(tDark)), Some(JsonText(tNegative)),
        Some(MalformedJson) } }
  \cup { [tokens |-> JsonText(tNegative), darkTokens |-> Some(JsonText(tDark))] }

ContrastArgs ==
  { [tokens |-> JsonText(tUnnormalized), level |-> l] : l \in {"AA", "AAA"} }
  \cup { [tokens |-> JsonText(tNegative), level |-> "AA"] }

InitServer ==
  /\ fn = "" /\ arg = Absent /\ ret = Absent /\ gen = Absent /\ history = <<>>

\* the server runs the handler of tool on args to its end: a handler awaits
\* nothing, so no other call runs in between
Handle(tool, args, handled) ==
  /\ Len(history) < MaxCalls
  /\ fn' = tool
  /\ arg' = args
  /\ ret' = Some(handled.settled)
  /\ gen' = handled.gen
  /\ history' = Append(history, [fn |-> tool, arg |-> args, ret |-> handled.settled])

CallExtractTokensFromTailwind ==
  \E args \in TailwindArgs :
    Handle("extract_tokens_from_tailwind", args, extract_tokens_from_tailwind(args))

CallExtractTokensFromCss ==
  \E args \in CssArgs :
    Handle("extract_tokens_from_css", args, extract_tokens_from_css(args))

CallExtractTokensFromFigmaVariables ==
  \E args \in FigmaArgs :
    Handle("extract_tokens_from_figma_variables", args,
           extract_tokens_from_figma_variables(args))

CallExtractTokensFromJson ==
  \E args \in DtcgArgs :
    Handle("extract_tokens_from_json", args, extract_tokens_from_json(args))

CallGenerateMaterial3Theme ==
  \E args \in Material3Args :
    Handle("generate_material3_theme", args, generate_material3_theme(args))

CallGenerateSwiftUITheme ==
  \E args \in SwiftUIArgs :
    Handle("generate_swiftui_theme", args, generate_swiftui_theme(args))

CallGenerateTailwindConfig ==
  \E args \in TailwindConfigArgs :
    Handle("generate_tailwind_config", args, generate_tailwind_config(args))

CallGenerateCssVariables ==
  \E args \in CssVariablesArgs :
    Handle("generate_css_variables", args, generate_css_variables(args))

CallValidateContrast ==
  \E args \in ContrastArgs :
    Handle("validate_contrast", args, validate_contrast(args))

NextServer ==
  \/ CallExtractTokensFromTailwind
  \/ CallExtractTokensFromCss
  \/ CallExtractTokensFromFigmaVariables
  \/ CallExtractTokensFromJson
  \/ CallGenerateMaterial3Theme
  \/ CallGenerateSwiftUITheme
  \/ CallGenerateTailwindConfig
  \/ CallGenerateCssVariables
  \/ CallValidateContrast

SpecServer == InitServer /\ [][NextServer]_vars

\* ------------------------------------------------------------------------
\* Properties of the extractors
\* ------------------------------------------------------------------------
Extracted ==
  /\ fn \in {"extractTokensFromTailwind", "extractTokensFromCSS",
             "extractTokensFromFigmaVariables", "extractTokensFromDTCG"}
  /\ ret # Absent
  /\ Get(ret).ok

\* "#" followed by exactly 6 or exactly 8 upper-case hexadecimal digits
NormalizedHex(v) ==
  /\ Len(v) \in {7, 9}
  /\ v[1] = "#"
  /\ \A i \in 2..Len(v) : v[i] \in Digits \cup UpperHex

\* every color value and every shadowColor of a token set is normalized
NormalizedColors(t) ==
  /\ t.colors # Absent =>
       \A i \in 1..Len(Get(t.colors)) : NormalizedHex(Get(t.colors)[i].value)
  /\ t.elevation # Absent =>
       \A i \in 1..Len(Get(t.elevation)) :
         NormalizedHex(Get(t.elevation)[i].shadowColor)

\* C1 (as claimed): every color value and every elevation shadowColor of a
\* token set an extractor returns is "#" followed by exactly 6 or exactly 8
\* upper-case hexadecimal digits.
C1_ExtractedColorsNormalized ==
  Extracted => NormalizedColors(Get(Get(ret).tokens))

\* C2 (as claimed): every token set an extractor returns is accepted by
\* validateTokens.
C2_ExtractedTokensValid ==
  Extracted => validateTokens(Get(Get(ret).tokens)).valid

\* the theme field X at the top level and under extend, when it is an object
TopObject(theme, key) ==
  LET v == Lookup(theme.entries, key)
  IN  IF v # Absent /\ IsObject(Get(v)) THEN Some(ObjEntries(Get(v))) ELSE Absent

ExtendObject(theme, key) ==
  LET ext == Lookup(theme.entries, kExtend)
  IN  IF ext # Absent /\ Get(ext).type = "object"
      THEN TopObject(Get(ext), key) ELSE Absent

ThemeFields == {kColors, kFontSize, kFontFamily, kSpacing, kBorderRadius, kBoxShadow}

\* the collection a theme field populates
CollectionOf(key) ==
  CASE key = kColors -> "colors"
    [] key \in {kFontSize, kFontFamily} -> "typography"
    [] key = kSpacing -> "spacing"
    [] key = kBorderRadius -> "radii"
    [] key = kBoxShadow -> "elevation"

\* the entries one theme object of field X yields on its own
EntriesOf(key, obj) ==
  CASE key = kColors -> extractColors(obj, <<>>)
    [] key = kFontSize -> extractTypography(obj).entries
    [] key = kFontFamily -> FontFamilies(<<>>, obj)
    [] key \in {kSpacing, kBorderRadius} -> extractNumericMap(obj)
    [] key = kBoxShadow -> extractElevation(obj)

BothLevels(theme, key) ==
  TopObject(theme, key) # Absent /\ ExtendObject(theme, key) # Absent

\* C11 (as claimed), for the fields that populate a collection of their own
\* (colors, spacing, borderRadius, boxShadow): when theme.X and theme.extend.X both exist, the
\* collection the Tailwind extractor returns for X holds the entries of both,
\* merged at leaf level, the extend value winning on a key present in both.
C11_ExtendMergedAtLeafLevel ==
  (Extracted /\ fn = "extractTokensFromTailwind") =>
    \A key \in ThemeFields \ {kFontSize, kFontFamily} :
      BothLevels(Get(arg), key) =>
        Get(Get(ret).tokens)[CollectionOf(key)] =
          Some(Assign(EntriesOf(key, Get(TopObject(Get(arg), key))),
                      EntriesOf(key, Get(ExtendObject(Get(arg), key)))))

\* a collection that is present and holds at least one entry
Populated(t, c) == t[c] # Absent /\ Get(t[c]) # <<>>

\* C12 (as claimed): the Tailwind extractor never returns a token set in
\* which every collection is absent or an empty map; it throws instead.
C12_TailwindNeverReturnsEmpty ==
  (Extracted /\ fn = "extractTokensFromTailwind") =>
    \E c \in CollectionNames : Populated(Get(Get(ret).tokens), c)

\* the first listed font name of a fontFamily value
FirstFont(value) ==
  IF value.type = "array" THEN TextOf(StringOf(value.items[1]))
  ELSE TextOf(StringOf(value))

\* the entry of that name
EntryNamed(entries, name) ==
  entries[CHOOSE i \in 1..Len(entries) : entries[i].name = name]

HasEntry(entries, name) == \E i \in 1..Len(entries) : entries[i].name = name

\* C13 (as claimed): for each fontFamily entry <key> the Tailwind extractor
\* emits a typography token font-<key> whose fontFamily is the first listed
\* font name, and whose fontSize is the one extracted from fontSize for that
\* name when there is one and the default 16 otherwise.
C13_FontFamilyKeepsExtractedSize ==
  (Extracted /\ fn = "extractTokensFromTailwind"
     /\ ObjectField(Get(arg), kFontFamily) # Absent) =>
    LET typography == Get(Get(Get(ret).tokens).typography)
        fontSize == ObjectField(Get(arg), kFontSize)
        sized == IF fontSize = Absent THEN <<>>
                 ELSE extractTypography(Get(fontSize)).entries
        fontFamily == Get(ObjectField(Get(arg), kFontFamily))
    IN  \A i \in 1..Len(fontFamily) :
          LET name == kFontPrefix \o fontFamily[i].name
          IN  /\ HasEntry(typography, name)
              /\ EntryNamed(typography, name).fontFamily =
                   Some(FirstFont(fontFamily[i].value))
              /\ EntryNamed(typography, name).fontSize =
                   IF HasEntry(sized, name) THEN EntryNamed(sized, name).fontSize
                   ELSE Some(H(kTailwindBaseSize))

\* ------------------------------------------------------------------------
\* Properties of the CSS extractor
\* ------------------------------------------------------------------------
CssExtracted == fn = "extractTokensFromCSS" /\ ret # Absent

\* the position of the first declaration of a name
FirstDeclaration(css, name) ==
  CHOOSE i \in 1..Len(css) :
    css[i].name = name /\ \A j \in 1..(i - 1) : css[j].name # name

\* the text without its i-th declaration
WithoutDeclaration(css, i) == SubSeq(css, 1, i - 1) \o SubSeq(css, i + 1, Len(css))

Redeclared(css, i) == FirstDeclaration(css, css[i].name) < i

\* C19: the value the CSS extractor records for a custom property is the one
\* of its first declaration in source order, and a later declaration of the
\* same name changes nothing: the outcome is the one of the text without it.
C19_FirstDeclarationWins ==
  CssExtracted =>
    \A i \in 1..Len(arg) :
      /\ Lookup(parseCustomProperties(arg), arg[i].name)
           = Some(arg[FirstDeclaration(arg, arg[i].name)].value)
      /\ Redeclared(arg, i) =>
           Get(ret) = extractTokensFromCSS(WithoutDeclaration(arg, i))

\* a property declared twice with different values, and tokens extracted
C19_Witness ==
  /\ CssExtracted /\ Get(ret).ok
  /\ \E i \in 1..Len(arg) :
       /\ Redeclared(arg, i)
       /\ arg[i].value # arg[FirstDeclaration(arg, arg[i].name)].value

\* ------------------------------------------------------------------------
\* Properties of the Figma-variables extractor
\* ------------------------------------------------------------------------
FigmaExtracted == fn = "extractTokensFromFigmaVariables" /\ ret # Absent

\* an export that parsed to an object whose variables all carry valuesByMode
WellTyped(data) ==
  /\ data.wellFormed /\ ~data.isNull
  /\ \A i \in 1..Len(data.variables) : data.variables[i].hasValues

\* the default mode the extractor works with
FirstDefaultMode(data) ==
  IF Len(data.collections) > 0 THEN data.collections[1].defaultModeId ELSE Absent

\* the value one alias reference leads to: the target's value in the mode,
\* or in its first mode; a value that is no alias, or whose target does not
\* exist, leads nowhere
FollowOnce(value, variables, modeId) ==
  IF value.type # "alias" \/ VariableById(variables, value.id) = Absent THEN value
  ELSE LET target == Get(VariableById(variables, value.id))
           inMode == ValueInMode(target.valuesByMode, modeId)
       IN  IF inMode.type # "undefined" THEN inMode
           ELSE IF Len(target.valuesByMode) > 0 THEN target.valuesByMode[1].value
           ELSE FvUndefined

\* the value reached after following at most hops alias references
RECURSIVE Follow(_, _, _, _)
Follow(value, variables, modeId, hops) ==
  IF hops = 0 THEN value
  ELSE FollowOnce(Follow(value, variables, modeId, hops - 1), variables, modeId)

\* the value of a variable in the mode the extractor reads, 10 references on
TenHops(variable, data) ==
  LET modeId == ModeOf(variable, FirstDefaultMode(data))
  IN  Follow(ValueInMode(variable.valuesByMode, modeId), data.variables, modeId, 10)

FigmaMessages ==
  {"Invalid JSON: could not parse Figma variables export.",
   "No variables found in the Figma export.",
   "Figma variables found but none could be mapped to design tokens."}

\* C15: alias resolution in the Figma-variables extractor follows at most 10
\* alias references and yields the value seen last (still an alias on a
\* cyclic graph or a missing target); it raises nothing, and every variable
\* whose value resolves to a color is extracted whatever the other variables.
C15_FigmaAliasResolutionBounded ==
  (FigmaExtracted /\ WellTyped(arg) /\ Len(arg.variables) > 0) =>
    /\ \A i \in 1..Len(arg.variables) :
         ResolvedValue(arg.variables[i], arg.variables, FirstDefaultMode(arg))
           = TenHops(arg.variables[i], arg)
    /\ Get(ret).ok \/ Get(ret).error \in FigmaMessages
    /\ \A i \in 1..Len(arg.variables) :
         (arg.variables[i].resolvedType = "COLOR"
            /\ TenHops(arg.variables[i], arg).type = "color") =>
           /\ Get(ret).ok
           /\ HasEntry(Get(Get(Get(ret).tokens).colors),
                       normalizeVariableName(arg.variables[i].name))

\* a cyclic alias next to a variable that resolves: the extraction returned
C15_Witness ==
  /\ FigmaExtracted /\ WellTyped(arg) /\ Get(ret).ok
  /\ \E i, j \in 1..Len(arg.variables) :
       /\ TenHops(arg.variables[i], arg).type = "alias"
       /\ VariableById(arg.variables, TenHops(arg.variables[i], arg).id) # Absent
       /\ arg.variables[j].resolvedType = "COLOR"
       /\ TenHops(arg.variables[j], arg).type = "color"

\* the collection a variable belongs to, Absent when the export has none of
\* that id
CollectionOfVariable(variable, data) ==
  LET own == {k \in 1..Len(data.collections) :
                data.collections[k].id = variable.variableCollectionId}
  IN  IF own = {} THEN Absent ELSE Some(data.collections[CHOOSE k \in own : TRUE])

\* the default mode of the variable's own collection, else the variable's
\* first mode
OwnDefaultMode(variable, data) ==
  LET c == CollectionOfVariable(variable, data)
  IN  IF c # Absent /\ Get(c).defaultModeId # Absent THEN Get(c).defaultModeId
      ELSE IF Len(variable.valuesByMode) > 0
           THEN Some(variable.valuesByMode[1].name)
           ELSE Absent

\* C17 (as claimed): the value used for each variable is its value for the
\* default mode of the collection it belongs to, or for its first mode when
\* no default mode is known: a FLOAT variable holding a number in that mode
\* is extracted with that number.
C17_OwnCollectionDefaultMode ==
  (FigmaExtracted /\ WellTyped(arg)) =>
    \A i \in 1..Len(arg.variables) :
      LET variable == arg.variables[i]
          value == ValueInMode(variable.valuesByMode, OwnDefaultMode(variable, arg))
          name == normalizeVariableName(variable.name)
      IN  (variable.resolvedType = "FLOAT" /\ value.type = "number") =>
            /\ Get(ret).ok
            /\ \/ TokenNamed(OrElse(Get(Get(ret).tokens).spacing, <<>>), name)
                    = Some(Scalar(name, value.num))
               \/ TokenNamed(OrElse(Get(Get(ret).tokens).radii, <<>>), name)
                    = Some(Scalar(name, value.num))

DtcgMessages ==
  {"Invalid JSON: could not parse DTCG token file.",
   "No DTCG tokens found (no objects with $value).",
   "DTCG tokens found but none could be mapped to design tokens."}

\* C18 (as claimed): the Figma-variables and the DTCG extractor either
\* return a token set with at least one non-empty collection or throw an
\* Error carrying one of their own messages; no other exception escapes.
C18_OwnErrorsOnly ==
  /\ FigmaExtracted =>
       IF Get(ret).ok
       THEN \E c \in CollectionNames : Populated(Get(Get(ret).tokens), c)
       ELSE Get(ret).error \in FigmaMessages
  /\ (fn = "extractTokensFromDTCG" /\ ret # Absent) =>
       IF Get(ret).ok
       THEN \E c \in CollectionNames : Populated(Get(Get(ret).tokens), c)
       ELSE Get(ret).error \in DtcgMessages

\* ------------------------------------------------------------------------
\* Properties of the DTCG extractor
\* ------------------------------------------------------------------------
DtcgExtracted == fn = "extractTokensFromDTCG" /\ ret # Absent

\* the flattened tokens of a parsed document
FlatTokens(data) ==
  IF data # Absent /\ IsObject(Get(data))
  THEN flattenTokens(ObjEntries(Get(data)), <<>>, <<>>, Absent)
  ELSE <<>>

\* the value one "{path}" reference leads to; a value that is no alias, or
\* whose path names no token, leads nowhere
DtcgFollowOnce(value, tokens) ==
  IF value.type = "string" /\ Get(value.str).kind = "alias"
     /\ TokenNamed(tokens, Get(value.str).chars) # Absent
  THEN Get(TokenNamed(tokens, Get(value.str).chars)).value
  ELSE value

\* the value reached after following at most hops references
RECURSIVE DtcgFollow(_, _, _)
DtcgFollow(value, tokens, hops) ==
  IF hops = 0 THEN value
  ELSE DtcgFollowOnce(DtcgFollow(value, tokens, hops - 1), tokens)

\* the key paths of the tokens of a document: the nodes that have a $value
\* field, reached through nodes that have none
RECURSIVE TokenPaths(_)
TokenPaths(entries) ==
  UNION { LET e == entries[i]
          IN  IF StartsWith(e.name, <<"$">>) \/ ~IsObject(e.value) THEN {}
              ELSE IF e.value.type = "object" /\ Lookup(e.value.entries, kValue) # Absent
              THEN {<<e.name>>}
              ELSE { <<e.name>> \o p : p \in TokenPaths(ObjEntries(e.value)) } :
          i \in 1..Len(entries) }

\* the keys of a path joined by dots
RECURSIVE JoinKeyPath(_)
JoinKeyPath(p) == IF Len(p) = 1 THEN p[1] ELSE p[1] \o <<".">> \o JoinKeyPath(Tail(p))

\* the $type a node declares, Absent when it declares none
DeclaredType(entries) ==
  LET t == Lookup(entries, kType)
  IN  IF t # Absent /\ Get(t).type = "string" THEN Some(TypeText(Get(t))) ELSE Absent

\* the $type of the node at the end of the path when it declares one, else
\* that of its nearest ancestor that does
RECURSIVE NearestType(_, _, _)
NearestType(entries, path, inherited) ==
  LET here == IF DeclaredType(entries) # Absent THEN DeclaredType(entries)
              ELSE inherited
  IN  IF path = <<>> THEN here
      ELSE NearestType(ObjEntries(Get(Lookup(entries, Head(path)))), Tail(path), here)

\* C20: the effective type of every token (node with a $value field) of a
\* DTCG document is its own $type, else the $type of its nearest ancestor
\* that declares one, else the type inferred from its resolved value; the
\* tokens are the nodes with $value that lie under no other token.
C20_TypeInheritedFromNearestGroup ==
  (DtcgExtracted /\ arg # Absent /\ IsObject(Get(arg))) =>
    LET doc == ObjEntries(Get(arg))
        flat == FlatTokens(arg)
    IN  /\ { flat[i].name : i \in 1..Len(flat) } = { JoinKeyPath(p) : p \in TokenPaths(doc) }
        /\ \A p \in TokenPaths(doc) :
             LET token == Get(TokenNamed(flat, JoinKeyPath(p)))
                 declared == NearestType(doc, p, Absent)
             IN  EffectiveType(token, flat) =
                   IF declared # Absent THEN declared
                   ELSE inferType(resolveAliases(token.value, flat, 0))

\* a token two groups down that declares no $type, under a group whose $type
\* is not the one its value would be inferred as, next to a token with a
\* token-shaped child
C20_Witness ==
  /\ DtcgExtracted /\ arg # Absent /\ IsObject(Get(arg)) /\ Get(ret).ok
  /\ \E p \in TokenPaths(ObjEntries(Get(arg))) :
       LET token == Get(TokenNamed(FlatTokens(arg), JoinKeyPath(p)))
       IN  /\ Len(p) = 3
           /\ NearestType(ObjEntries(Get(arg)), p, Absent) = Some("fontSize")
           /\ inferType(token.value) = Some("dimension")
  /\ \E i \in 1..Len(ObjEntries(Get(arg))) :
       LET v == ObjEntries(Get(arg))[i].value
       IN  /\ v.type = "object" /\ Lookup(v.entries, kValue) # Absent
           /\ \E k \in 1..Len(v.entries) :
                /\ v.entries[k].value.type = "object"
                /\ Lookup(v.entries[k].value.entries, kValue) # Absent

\* C16 (as claimed): alias resolution in the DTCG extractor follows at most
\* 10 alias references per token: the value it uses for a token is the one
\* reached after 10 references at most, still an alias when the chain is
\* longer or cyclic.
C16_DtcgAliasResolutionBounded ==
  DtcgExtracted =>
    \A i \in 1..Len(FlatTokens(arg)) :
      resolveAliases(FlatTokens(arg)[i].value, FlatTokens(arg), 0)
        = DtcgFollow(FlatTokens(arg)[i].value, FlatTokens(arg), 10)

\* the top-level typography composites of a document whose fontSize is a
\* non-negative dimension string
SizedComposites(data) ==
  { e \in { ObjEntries(Get(data))[i] : i \in 1..Len(ObjEntries(Get(data))) } :
      /\ IsObject(e.value)
      /\ Lookup(ObjEntries(e.value), kType) = Some(JStr(TextStr("typography")))
      /\ Lookup(ObjEntries(e.value), kValue) # Absent
      /\ IsObject(Get(Lookup(ObjEntries(e.value), kValue)))
      /\ LET size == Lookup(ObjEntries(Get(Lookup(ObjEntries(e.value), kValue))),
                            kFontSize)
         IN  /\ size # Absent
             /\ Get(size).type = "string"
             /\ Get(Get(size).str).kind = "dim"
             /\ Get(Get(size).str).sign = 1 }

FontSizeString(e) ==
  Get(Get(Lookup(ObjEntries(Get(Lookup(ObjEntries(e.value), kValue))),
                 kFontSize)).str)

\* C26 (as claimed), for the fontSize of a DTCG typography composite: "<n>rem"
\* and "<n>em" give exactly n*16, "<n>px" and "<n>" give exactly n, and with
\* any other unit the extraction does not raise and the token has no fontSize.
C26_DimensionExactOrOmitted ==
  DtcgExtracted /\ arg # Absent /\ IsObject(Get(arg)) =>
    \A e \in SizedComposites(arg) :
       /\ Get(ret).ok
       /\ LET typography == Get(Get(Get(ret).tokens).typography)
              s == FontSizeString(e)
          IN  /\ HasEntry(typography, e.name)
              /\ EntryNamed(typography, e.name).fontSize =
                   IF s.unit \in {"rem", "em"} THEN Some(s.num * 16)
                   ELSE IF s.unit \in {"px", ""} THEN Some(s.num)
                   ELSE Absent

\* C28 (as claimed): when a duration token and a cubicBezier token have the
\* same name, the motion entry of that name has the duration of the first and
\* the easing of the second, whichever comes first in the document.
C28_DurationAndEasingCombine ==
  DtcgExtracted /\ Get(ret).ok =>
    LET flat == FlatTokens(arg)
        value(i) == resolveAliases(flat[i].value, flat, 0)
    IN  \A i, j \in 1..Len(flat) :
           /\ LastDotSegment(flat[i].name) = LastDotSegment(flat[j].name)
           /\ EffectiveType(flat[i], flat) = Some("duration")
           /\ parseDuration(value(i)) # Absent
           /\ EffectiveType(flat[j], flat) = Some("cubicBezier")
           /\ value(j).type = "array" /\ Len(value(j).items) = 4
           => LET motion == Get(Get(Get(ret).tokens).motion)
                  entry == EntryNamed(motion, LastDotSegment(flat[i].name))
              IN  /\ entry.duration = Get(parseDuration(value(i)))
                  /\ entry.easing =
                       "cubic-bezier(" \o Show(value(j).items[1])
                         \o ", " \o Show(value(j).items[2])
                         \o ", " \o Show(value(j).items[3])
                         \o ", " \o Show(value(j).items[4]) \o ")"

\* the flattened tokens that the color case turns into a color entry
ColorTokens(flat) ==
  { i \in 1..Len(flat) :
      /\ EffectiveType(flat[i], flat) = Some("color")
      /\ resolveAliases(flat[i].value, flat, 0).type = "string"
      /\ normalizeColor(Get(resolveAliases(flat[i].value, flat, 0).str)) # Absent }

\* C29 (as claimed): tokens of different paths give different entries, so the
\* output has as many color entries as the document has color tokens with a
\* valid color value.
C29_NoColorLostThroughNaming ==
  DtcgExtracted /\ Get(ret).ok =>
    LET colors == Get(Get(ret).tokens).colors
    IN  Cardinality(ColorTokens(FlatTokens(arg))) =
          IF colors = Absent THEN 0 ELSE Len(Get(colors))

\* ------------------------------------------------------------------------
\* Properties of the balanced-block scan
\* ------------------------------------------------------------------------
\* opening braces minus closing braces of a text
Balance(text) ==
  Cardinality({ i \in 1..Len(text) : text[i] = "{" })
    - Cardinality({ i \in 1..Len(text) : text[i] = "}" })

\* the positions of the opening brace of a pattern match
Openings(content) ==
  { i \in 2..Len(content) : content[i - 1] = "theme:" /\ content[i] = "{" }

\* C27: extractBalancedBlock returns the text from the opening brace of the
\* first pattern match to the first position where the braces from there on
\* balance; the depth is at least 1 before that position, so the block has
\* as many "{" as "}" and no proper prefix of it is balanced; it returns null
\* when the pattern does not match or the braces never balance.
C27_BalancedBlock ==
  fn = "extractBalancedBlock" /\ ret # Absent =>
    LET content == arg.content
        block == Get(ret)
    IN  IF Openings(content) = {} THEN block = Absent
        ELSE LET open == CHOOSE i \in Openings(content) :
                            \A j \in Openings(content) : i <= j
                 closes == { j \in open..Len(content) :
                               Balance(SubSeq(content, open, j)) = 0 }
             IN  IF closes = {} THEN block = Absent
                 ELSE /\ block # Absent
                      /\ \E j \in closes :
                            /\ \A k \in closes : j <= k
                            /\ Get(block) = SubSeq(content, open, j)
                      /\ Balance(Get(block)) = 0
                      /\ \A n \in 1..(Len(Get(block)) - 1) :
                            Balance(SubSeq(Get(block), 1, n)) >= 1

\* a block with a nested block was returned from a text that goes on with
\* another closing brace
C27_Witness ==
  /\ fn = "extractBalancedBlock" /\ ret # Absent /\ Get(ret) # Absent
  /\ LET block == Get(Get(ret))
     IN  /\ Cardinality({ i \in 1..Len(block) : block[i] = "{" }) = 2
         /\ arg.content[Len(arg.content)] = "}"
         /\ \E i \in 1..Len(arg.content) :
               /\ arg.content[i] = "theme:"
               /\ i + Len(block) < Len(arg.content)

\* ------------------------------------------------------------------------
\* Properties of the contrast checker
\* ------------------------------------------------------------------------
Reported == fn = "validateContrast" /\ ret # Absent

\* the colors of the token set, none when the collection is absent
ColorsOf(tokens) == OrElse(tokens.colors, <<>>)

\* fg is the on-X / onX companion of bg
Companion(fg, bg) ==
  fg.name = <<"o", "n", "-">> \o bg.name \/ fg.name = OnNameCamel(bg.name)

\* fg has a foreground-like and bg a background-like name
NamePattern(fg, bg) ==
  ToLowerCase(fg.name) \in TextNames /\ ToLowerCase(bg.name) \in BackgroundNames

\* the result for the pair "fg on bg"
ResultOf(report, fg, bg) ==
  { k \in 1..Len(report.results) :
      report.results[k].pair = fg.name \o wOn \o bg.name }

\* C21 (as claimed): a pair formed by matching a foreground-like name against
\* a background-like name is in the report only when the color set holds no
\* on-X / onX companion pair.
C21_NamePatternPairsOnlyAsFallback ==
  Reported =>
    LET colors == ColorsOf(arg.tokens)
        n == Len(colors)
    IN  (\E i, j \in 1..n : Companion(colors[i], colors[j])) =>
          \A i, j \in 1..n :
            (NamePattern(colors[i], colors[j]) /\ ~Companion(colors[i], colors[j]))
              => ResultOf(Get(ret), colors[i], colors[j]) = {}

\* the color set holds no semantic pair, companion or name-pattern
NoSemanticPair(colors) ==
  \A i, j \in 1..Len(colors) :
    ~Companion(colors[i], colors[j]) /\ ~NamePattern(colors[i], colors[j])

\* the place of the pair (i, j), i < j, among the unordered pairs of n colors
\* taken in insertion order
PlaceOf(i, j, n) == (i - 1) * n - ((i - 1) * i) \div 2 + (j - i)

\* C22: with two colors or more the report pairs every color with every
\* other only when the set holds no semantic pair, and then it has one result
\* for each unordered pair, n * (n - 1) / 2 of them in insertion order; with
\* fewer than two colors it has total 0 and no results.
C22_ExhaustivePairingAsLastResort ==
  Reported =>
    LET colors == ColorsOf(arg.tokens)
        n == Len(colors)
        report == Get(ret)
    IN  /\ n < 2 => report.total = 0 /\ report.results = <<>>
        /\ (n >= 2 /\ NoSemanticPair(colors)) =>
             /\ Len(report.results) = (n * (n - 1)) \div 2
             /\ \A i, j \in 1..n :
                  i < j =>
                    LET r == report.results[PlaceOf(i, j, n)]
                    IN  /\ r.pair = colors[i].name \o <<"/">> \o colors[j].name
                        /\ r.foreground = colors[i].value
                        /\ r.background = colors[j].value
        /\ (n >= 2 /\ ~NoSemanticPair(colors)) =>
             \A k \in 1..Len(report.results) :
               \E i, j \in 1..n :
                 /\ Companion(colors[i], colors[j]) \/ NamePattern(colors[i], colors[j])
                 /\ report.results[k].pair = colors[i].name \o wOn \o colors[j].name

\* three colors without a semantic pair, paired exhaustively
C22_Witness ==
  /\ Reported
  /\ Len(ColorsOf(arg.tokens)) = 3
  /\ NoSemanticPair(ColorsOf(arg.tokens))
  /\ Get(ret).total = 3

\* the normal-text flag of a result at a level
NormalTextAt(result, level) ==
  IF level = "AA" THEN result.aa.normalText ELSE result.aaa.normalText

\* C23: every report has total = number of results = passing + failing,
\* passing being the number of results whose normalText flag at the requested
\* level is true, and every result carries the four flags whatever the level.
C23_ReportCountsAgree ==
  Reported =>
    LET report == Get(ret)
    IN  /\ report.level = arg.level
        /\ report.total = Len(report.results)
        /\ report.total = report.passing + report.failing
        /\ report.passing =
             Cardinality({ k \in 1..Len(report.results) :
                            NormalTextAt(report.results[k], arg.level) })
        /\ \A k \in 1..Len(report.results) :
             /\ DOMAIN report.results[k].aa = {"normalText", "largeText"}
             /\ DOMAIN report.results[k].aaa = {"normalText", "largeText"}
             /\ \A f \in {"normalText", "largeText"} :
                  /\ report.results[k].aa[f] \in BOOLEAN
                  /\ report.results[k].aaa[f] \in BOOLEAN

\* a report with passing and failing results, one of them passing for large
\* text only
C23_Witness ==
  /\ Reported
  /\ Get(ret).passing >= 1 /\ Get(ret).failing >= 1
  /\ \E k \in 1..Len(Get(ret).results) :
       /\ ~NormalTextAt(Get(ret).results[k], arg.level)
       /\ IF arg.level = "AA" THEN Get(ret).results[k].aa.largeText
          ELSE Get(ret).results[k].aaa.largeText

\* C30 (as claimed): in every result the flags agree with the reported ratio
\* (rounded to 2 decimals, here in hundredths): aa.normalText and
\* aaa.largeText exactly when it is >= 4.5, aa.largeText exactly when it is
\* >= 3, aaa.normalText exactly when it is >= 7.
C30_FlagsAgreeWithReportedRatio ==
  Reported =>
    \A k \in 1..Len(Get(ret).results) :
      LET r == Get(ret).results[k]
      IN  /\ r.aa.normalText <=> r.ratio >= 450
          /\ r.aaa.largeText <=> r.ratio >= 450
          /\ r.aa.largeText <=> r.ratio >= 300
          /\ r.aaa.normalText <=> r.ratio >= 700

\* ------------------------------------------------------------------------
\* Properties of the sanitizer
\* ------------------------------------------------------------------------
PassedThrough == {"typography", "spacing", "radii", "motion"}

\* C24: a call of sanitizeTokens changes no object that existed before it
\* (the token set passed in, its collections and their tokens stay as they
\* were), returns a reference to an object that did not exist before, and the
\* typography, spacing, radii and motion of the result equal those of the
\* argument.
C24_SanitizeLeavesArgumentAlone ==
  [][fn = "sanitizeTokens" =>
       LET argument == IF ret = Absent THEN arg.tokens ELSE Get(ret)
       IN  /\ \A a \in DOMAIN arg.heap : arg'.heap[a] = arg.heap[a]
           /\ Get(ret') \notin DOMAIN arg.heap
           /\ \A c \in PassedThrough :
                Value(arg'.heap, Get(ret'))[c] = Value(arg.heap, argument)[c]]_vars

\* a call was made on a token set whose colors and elevation it had to
\* rewrite and which has a collection passed through
C24_Witness ==
  /\ fn = "sanitizeTokens"
  /\ ret # Absent
  /\ LET given == Value(arg.heap, arg.tokens)
         result == Value(arg.heap, Root(1))
     IN  /\ \E c \in {"colors", "elevation"} :
               given[c] # Absent /\ result[c] # given[c]
         /\ \E c \in PassedThrough :
               given[c] # Absent /\ given[c] # Some(<<>>)

\* C25: normalizeHexColor turns a 3-digit "#RGB" into the upper-case
\* "#RRGGBB" with each digit doubled, returns an upper-case 6- or 8-digit
\* color unchanged, and normalizing its result again changes nothing; the
\* token set of a second sanitizeTokens equals the token set of the first.
C25_NormalizationIdempotent ==
  /\ fn = "normalizeHexColor" /\ ret # Absent =>
       /\ Len(arg) = 4 =>
            Get(ret) = ToUpperCase(<<"#", arg[2], arg[2], arg[3], arg[3],
                                     arg[4], arg[4]>>)
       /\ Len(arg) # 4 /\ ToUpperCase(arg) = arg => Get(ret) = arg
       /\ normalizeHexColor(Get(ret)) = Get(ret)
  /\ fn = "sanitizeTokens" /\ ret # Absent =>
       \A k \in 1..Get(ret).obj :
          Value(arg.heap, Root(k)) = Value(arg.heap, Root(1))

\* a token set with a 3-digit lower-case color was sanitized twice
C25_Witness ==
  /\ fn = "sanitizeTokens" /\ ret # Absent /\ Get(ret).obj >= 2
  /\ LET given == Value(arg.heap, arg.tokens)
     IN  /\ given.colors # Absent
         /\ \E i \in 1..Len(Get(given.colors)) :
               Get(given.colors)[i].value = cShortLower

\* ------------------------------------------------------------------------
\* Properties of the shadow parsers
\* ------------------------------------------------------------------------
\* C14 (as claimed): parseShadow of the Tailwind extractor and
\* parseShadowValue of the CSS extractor return the same elevation token (or
\* both none) for every shadow string.
C14_ShadowParsersAgree ==
  /\ (fn = "parseShadow" /\ ret # Absent) => Get(ret) = parseShadowValue(arg)
  /\ (fn = "parseShadowValue" /\ ret # Absent) => Get(ret) = parseShadow(arg)

\* ------------------------------------------------------------------------
\* Properties of the server
\* ------------------------------------------------------------------------
GeneratorTools ==
  {"generate_material3_theme", "generate_swiftui_theme", "generate_tailwind_config",
   "generate_css_variables", "validate_contrast"}

ExtractionTools ==
  {"extract_tokens_from_tailwind", "extract_tokens_from_css",
   "extract_tokens_from_figma_variables", "extract_tokens_from_json"}

\* a generation or checking tool has been handled
Generated == fn \in GeneratorTools /\ ret # Absent

\* the handler returned normally the payload { error: label, details: errors }
InvalidPayload(label, errors) ==
  /\ gen = Absent
  /\ Get(ret).promise = "resolved"
  /\ ~Get(Get(ret).result).isError
  /\ Get(Get(ret).result).content = StringifyInvalid(label, errors)

\* the generator is called only with the validated tokens argument, and an
\* invalid tokens argument is answered with the payload
TokensValidatedFirst ==
  LET parsed == parseTokensFromString(arg.tokens)
  IN  /\ gen # Absent => parsed.valid /\ Get(gen).tokens = Get(parsed.tokens)
      /\ ~parsed.valid => InvalidPayload("Invalid tokens", Get(parsed.errors))

\* C7 (as claimed): the generator or validateContrast is invoked only after
\* parseTokensFromString returned valid for the tokens argument and, for
\* generate_css_variables, for the dark tokens argument too; when validation
\* fails the handler returns normally the { error, details } payload and the
\* generator is not called.
C7_ValidatedBeforeGenerator ==
  Generated =>
    /\ TokensValidatedFirst
    /\ (fn = "generate_css_variables" /\ arg.darkTokens # Absent) =>
         LET darkParsed == parseTokensFromString(Get(arg.darkTokens))
         IN  /\ gen # Absent => darkParsed.valid
             /\ (parseTokensFromString(arg.tokens).valid /\ ~darkParsed.valid) =>
                  InvalidPayload("Invalid dark tokens", Get(darkParsed.errors))

\* C7 (amended): as claimed, for a dark tokens argument that is not the
\* empty string; an empty dark tokens argument is not validated and no dark
\* tokens reach the generator.
C7_ValidatedBeforeGeneratorNonEmptyDark ==
  Generated =>
    /\ TokensValidatedFirst
    /\ (fn = "generate_css_variables" /\ arg.darkTokens # Absent) =>
         LET darkParsed == parseTokensFromString(Get(arg.darkTokens))
         IN  IF Get(arg.darkTokens).empty
             THEN gen # Absent => Get(gen).dark = Absent
             ELSE /\ gen # Absent =>
                       /\ darkParsed.valid
                       /\ Get(gen).dark = darkParsed.tokens
                  /\ (parseTokensFromString(arg.tokens).valid /\ ~darkParsed.valid) =>
                       InvalidPayload("Invalid dark tokens", Get(darkParsed.errors))

\* generate_css_variables has rejected invalid dark tokens, and has passed
\* valid ones on
C7_Witness ==
  /\ fn = "generate_css_variables"
  /\ Len(history) >= 2
  /\ \E i \in 1..Len(history) :
       /\ history[i].fn = "generate_css_variables"
       /\ Get(history[i].ret.result).content.kind = "invalid"
       /\ Get(history[i].ret.result).content.error = "Invalid dark tokens"
  /\ gen # Absent
  /\ Get(gen).dark # Absent

\* C8 (as claimed): every color value and shadowColor of a token set a
\* handler passes to a generator or to validateContrast is upper-case with
\* exactly 6 or 8 hexadecimal digits after "#".
C8_GeneratorInputNormalized ==
  (Generated /\ gen # Absent) =>
    /\ NormalizedColors(Get(gen).tokens)
    /\ Get(gen).dark # Absent => NormalizedColors(Get(Get(gen).dark))

\* the outcome of the extractor an extraction tool runs
ExtractorOutcome ==
  CASE fn = "extract_tokens_from_tailwind" -> extractTokensFromTailwind(arg.config)
    [] fn = "extract_tokens_from_css" -> extractTokensFromCSS(arg.css)
    [] fn = "extract_tokens_from_figma_variables" ->
         extractTokensFromFigmaVariables(arg.variables)
    [] fn = "extract_tokens_from_json" -> extractTokensFromDTCG(arg.json)

\* C9: every handler completes with a result, and an exception thrown inside
\* it is returned as the content { error: message } with isError true; no
\* call is left rejected.
C9_HandlersAlwaysReturn ==
  /\ \A i \in 1..Len(history) : history[i].ret.promise = "resolved"
  /\ (fn \in ExtractionTools /\ ~ExtractorOutcome.ok) =>
       Get(Get(ret).result) =
         [content |-> StringifyError(ExtractorOutcome.error), isError |-> TRUE]
  /\ (ret # Absent /\ Get(Get(ret).result).isError) =>
       fn \in ExtractionTools /\ ~ExtractorOutcome.ok

\* an extractor has thrown, the handler has returned the error, and the
\* server has handled another call after it
C9_Witness ==
  /\ Len(history) >= 2
  /\ Get(history[1].ret.result).isError
  /\ Get(history[1].ret.result).content.kind = "error"
  /\ ~Get(history[2].ret.result).isError

Validated == fn = "validateTokens" /\ ret # Absent

Entries(t, c) == IF t[c] = Absent THEN <<>> ELSE Get(t[c])

SomeNonEmpty(t) == \E c \in CollectionNames : Len(Entries(t, c)) > 0

Range(seq) == {seq[i] : i \in 1..Len(seq)}

RootError == "(root): Token object must contain at least one token category"

\* C3 (as claimed): validateTokens accepts a token set only if one of the six
\* collections is present and non-empty, and rejects a set whose collections
\* are all absent or empty with the root-level error.
C3_AcceptsOnlyNonEmpty ==
  Validated =>
    /\ Get(ret).valid => SomeNonEmpty(arg)
    /\ ~SomeNonEmpty(arg) =>
         /\ ~Get(ret).valid
         /\ RootError \in Range(Get(Get(ret).errors))

\* The violated rules of a token object, stated per field from the data
\* model: one "path: message" string for each rule a field violates.
FieldPath(c, e, f) == c \o "." \o Str(e.name) \o "." \o f

IsHexColor(v) ==
  /\ Len(v) \in {4, 7, 9}
  /\ v[1] = "#"
  /\ \A i \in 2..Len(v) : v[i] \in HexDigits

HexMessage == "Must be a valid hex color (#RGB, #RRGGBB, or #RRGGBBAA)"

Violations(t) ==
  { FieldPath("colors", e, "value") \o ": " \o HexMessage :
      e \in {x \in Range(Entries(t, "colors")) : ~IsHexColor(x.value)} }
  \cup
  { FieldPath("colors", e, "category") \o ": Invalid enum value" :
      e \in {x \in Range(Entries(t, "colors")) :
               x.category # Absent /\ Get(x.category) \notin Categories} }
  \cup
  { FieldPath("typography", e, "fontSize") \o ": fontSize must be positive" :
      e \in {x \in Range(Entries(t, "typography")) :
               x.fontSize # Absent /\ Get(x.fontSize) <= 0} }
  \cup
  { FieldPath("typography", e, "fontSize") \o ": Required" :
      e \in {x \in Range(Entries(t, "typography")) : x.fontSize = Absent} }
  \cup
  { FieldPath("typography", e, "lineHeight") \o ": lineHeight must be positive" :
      e \in {x \in Range(Entries(t, "typography")) :
               x.lineHeight # Absent /\ Get(x.lineHeight) <= 0} }
  \cup
  { FieldPath("typography", e, "fontWeight") \o ": Expected integer, received float" :
      e \in {x \in Range(Entries(t, "typography")) :
               x.fontWeight # Absent /\ Get(x.fontWeight) % 100 # 0} }
  \cup
  { FieldPath("typography", e, "fontWeight") \o ": fontWeight minimum is 100" :
      e \in {x \in Range(Entries(t, "typography")) :
               x.fontWeight # Absent /\ Get(x.fontWeight) < 10000} }
  \cup
  { FieldPath("typography", e, "fontWeight") \o ": fontWeight maximum is 900" :
      e \in {x \in Range(Entries(t, "typography")) :
               x.fontWeight # Absent /\ Get(x.fontWeight) > 90000} }
  \cup
  { FieldPath("typography", e, "fontWeight")
      \o ": fontWeight must be a multiple of 100" :
      e \in {x \in Range(Entries(t, "typography")) :
               x.fontWeight # Absent /\ Get(x.fontWeight) % 10000 # 0} }
  \cup
  { "spacing." \o Str(e.name) \o ": spacing cannot be negative" :
      e \in {x \in Range(Entries(t, "spacing")) : x.value < 0} }
  \cup
  { "radii." \o Str(e.name) \o ": radii cannot be negative" :
      e \in {x \in Range(Entries(t, "radii")) : x.value < 0} }
  \cup
  { FieldPath("elevation", e, "shadowColor") \o ": " \o HexMessage :
      e \in {x \in Range(Entries(t, "elevation")) : ~IsHexColor(x.shadowColor)} }
  \cup
  { FieldPath("elevation", e, "shadowRadius") \o ": shadowRadius cannot be negative" :
      e \in {x \in Range(Entries(t, "elevation")) : x.shadowRadius < 0} }
  \cup
  { FieldPath("elevation", e, "shadowOpacity") \o ": shadowOpacity minimum is 0" :
      e \in {x \in Range(Entries(t, "elevation")) : x.shadowOpacity < 0} }
  \cup
  { FieldPath("elevation", e, "shadowOpacity") \o ": shadowOpacity maximum is 1" :
      e \in {x \in Range(Entries(t, "elevation")) : x.shadowOpacity > 100} }
  \cup
  { FieldPath("motion", e, "duration") \o ": duration must be positive" :
      e \in {x \in Range(Entries(t, "motion")) : x.duration <= 0} }
  \cup
  { FieldPath("motion", e, "easing") \o ": easing cannot be empty" :
      e \in {x \in Range(Entries(t, "motion")) : x.easing = ""} }
  \cup
  (IF \A c \in CollectionNames : t[c] = Absent THEN {RootError} ELSE {})

\* C4: validateTokens reports every violated rule of one input in a single
\* pass: the errors list holds exactly one "path: message" string per
\* violation (never only the first), valid is false and tokens is undefined.
C4_AllViolationsReported ==
  (Validated /\ Violations(arg) # {}) =>
    /\ ~Get(ret).valid
    /\ Get(ret).tokens = Absent
    /\ Get(ret).errors # Absent
    /\ Range(Get(Get(ret).errors)) = Violations(arg)
    /\ Len(Get(Get(ret).errors)) = Cardinality(Violations(arg))

\* an input violating rules in at least three distinct fields has been validated
C4_Witness ==
  /\ Validated
  /\ Cardinality(Violations(arg)) >= 3
  /\ Len(Get(Get(ret).errors)) >= 3

\* a fontWeight (hundredths) that is an integer multiple of 100 in [100, 900]
IsHundredStep(w) == \E k \in 1..9 : w = k * 10000

BadFontWeight(t) ==
  \E e \in Range(Entries(t, "typography")) :
    e.fontWeight # Absent /\ ~IsHundredStep(Get(e.fontWeight))

OnlyFontWeight(t) ==
  /\ Present(t) = {"typography"}
  /\ Len(Entries(t, "typography")) = 1
  /\ Entries(t, "typography")[1].fontSize # Absent
  /\ Get(Entries(t, "typography")[1].fontSize) > 0
  /\ Entries(t, "typography")[1].lineHeight = Absent
  /\ Entries(t, "typography")[1].fontWeight # Absent

\* C6 (as claimed, from the tests): validateTokens accepts any integer
\* fontWeight from 1 to 1000 (450 for one), and rejects 1001 with a first
\* error naming "fontWeight maximum is 1000".
C6_AcceptsCssFontsLevel4Weights ==
  (Validated /\ OnlyFontWeight(arg)) =>
    LET w == Get(Entries(arg, "typography")[1].fontWeight)
    IN  /\ (w % 100 = 0 /\ w >= 100 /\ w <= 100000) => Get(ret).valid
        /\ w = 100100 =>
             /\ ~Get(ret).valid
             /\ Get(Get(ret).errors)[1]
                  = "typography.t.fontWeight: fontWeight maximum is 1000"

====
